---------------------------- MODULE Spec2Model ----------------------------
(***************************************************************************)
(* Model of the batch collection orchestrator of mall-haebwa/crawling:     *)
(*   src/app/services/batch_service.py  BatchCollectionService             *)
(*   src/app/routes/batch.py            upload / pause / resume / cancel / *)
(*                                      delete control surface             *)
(*   src/app/models/batch.py            BatchCollection, BatchKeyword      *)
(*                                                                         *)
(* Every coroutine is cut at its awaits: one action is the code that runs  *)
(* between two awaits of one coroutine (asyncio runs it without            *)
(* interleaving), so the interleavings of the model are the interleavings  *)
(* the event loop can produce.  A document read by find_one is a local     *)
(* copy; save() writes the whole local copy back (Beanie Document.save     *)
(* replaces every field and inserts the document when it is missing).      *)
(***************************************************************************)
EXTENDS Integers, Sequences, FiniteSets, TLC

\* ------------------------------------------------------------------ bounds
MaxJobs == 1        \* batch jobs that are uploaded
MaxKeywords == 3    \* keywords of one uploaded CSV
MaxStarts == 2      \* invocations of start_batch_collection (upload + resume)
MaxHandlers == 1    \* control requests (pause / cancel / delete) in flight

Keywords == {"alpha", "beta"}
JobIds == 1..MaxJobs
Procs == 1..MaxStarts
Handlers == 1..MaxHandlers

\* current_batch_id = None
NoBatch == 0

VARIABLES
    is_running,        \* BatchCollectionService.is_running
    current_batch_id,  \* BatchCollectionService.current_batch_id
    jobs,              \* collection batch_collections, by batch_id
    tasks,             \* collection batch_keywords, by batch_id, in order
    history,           \* keywords having a ProductSearchResponse document
    nextBatch,         \* number of batches created so far
    run,               \* the invocations of start_batch_collection
    ctl                \* the control requests in flight

vars == <<is_running, current_batch_id, jobs, tasks, history, nextBatch, run, ctl>>

VARIABLES
    response,          \* the last answer of the control surface to a request
    published,         \* the last snapshot handed to the broadcaster, by batch_id
    active_connections, \* ConnectionManager.active_connections
    sock,              \* the websocket endpoints (batch_websocket), by socket
    bcast,             \* the calls of ConnectionManager.broadcast
    products,          \* collection products, in insertion order
    seen,              \* what has been observed of each product id so far
    product_type,      \* the argument of _parse_product_type
    classified,        \* what _parse_product_type returned for it
    counted,           \* saved_count and updated_count of the last store
    search,            \* one call of _collect_keyword and its search client
    collect,           \* one call of search_and_collect
    fetch,             \* one call of search_products with its retries
    request            \* the parameters of one request to the external API

\* No request has been answered yet.
NoResponse == [op |-> "none", batch_id |-> NoBatch, code |-> "none"]

\* The variables outside the orchestrator and its stored documents, and
\* those of them outside the control surface.
rest ==
    <<active_connections, sock, bcast, products, seen, product_type, classified,
      counted, search, collect, fetch, request>>

others == <<response, published, rest>>

\* --------------------------------------------------- bounds, broadcaster
MaxSockets == 3     \* websocket clients
MaxBatchIds == 2    \* batch ids named by websocket clients
MaxBroadcasts == 2  \* calls of broadcast

Sockets == 1..MaxSockets
BatchIds == 1..MaxBatchIds
Calls == 1..MaxBroadcasts

\* A websocket nobody has opened yet.
NoSocket == [state |-> "new", batch_id |-> NoBatch]

\* A call of broadcast that has not been made yet.
NoCall ==
    [pc |-> "idle", batch_id |-> NoBatch, began |-> {}, connections |-> {},
     connection |-> 0, disconnected |-> {}, tried |-> [w \in Sockets |-> 0],
     outcome |-> "none"]

\* ConnectionManager.__init__: active_connections = {}
RestInit ==
    /\ active_connections = [b \in {} |-> {}]
    /\ sock = [w \in Sockets |-> NoSocket]
    /\ bcast = [c \in Calls |-> NoCall]

\* Nothing has been published for a batch.
NoSnapshot == [status |-> "none"]

\* message = {"status": batch.status, "progress": {completed, failed,
\* skipped, ...}, ...} of broadcast_batch_status
Snapshot(doc) ==
    [status |-> doc.status, completed |-> doc.completed_keywords,
     failed |-> doc.failed_keywords, skipped |-> doc.skipped_keywords]

\* await broadcast_batch_status(batch_id) after a save of doc: the batch
\* is read again and its snapshot is handed to manager.broadcast.  The
\* snapshot is taken of the document just saved, the earliest state the
\* read can return.
Broadcast(b, doc) ==
    IF ~doc.exists
    THEN published
    ELSE [published EXCEPT ![b] = Snapshot(doc)]

\* --------------------------------------------------- bounds, products
MaxProductIds == 2  \* external product ids
MaxPrice == 2       \* prices an observation can carry
MaxFetched == 2     \* products one external call returns
MaxStored == 4      \* documents of the collection products
MaxCode == 60       \* product-type codes range over -MaxCode..MaxCode

ProductIds == 1..MaxProductIds
Prices == 1..MaxPrice
Categories == {"c1", "c2"}

\* Product(product_id, lprice/hprice, category1..4/tags, ...) made by
\* _convert_to_product from one item of the answer.
Observations == [product_id : ProductIds, lprice : Prices, category : Categories]

\* products returned by search_and_collect: non-empty (the empty list
\* returns before the store is touched), the same id may occur twice.
FetchedLists == UNION {[1..n -> Observations] : n \in 1..MaxFetched}

\* Nothing has been observed of a product id.
Unseen == [observed |-> FALSE]

\* Optional[int]: None, or an int.
None == [present |-> FALSE, value |-> 0]
Code(n) == [present |-> TRUE, value |-> n]
Codes == {None} \cup {Code(n) : n \in (0 - MaxCode)..MaxCode}

\* _parse_product_type has not been called.
NotParsed == [product_group |-> "not_parsed"]

\* saved_count = 0; updated_count = 0
NoCounts == [new_products |-> 0, updated_products |-> 0]

\* --------------------------------------------- bounds, search client
MaxAttempts == 3    \* stop_after_attempt(3) of search_products
MaxPages == 3       \* pages of one search: range(1, max_results + 1, display)
MaxDisplay == 2     \* items of a full page (display)

\* _collect_keyword has not been called.
NoSearch ==
    [pc |-> "idle", query |-> "none", page |-> 0, attempt |-> 0, collected |-> 0,
     exhausted |-> FALSE, task |-> "pending", ledger |-> FALSE, result |-> "none"]

\* ----------------------------------------- bounds, search_and_collect
MaxResults == 5     \* max_results passed to search_and_collect

\* search_and_collect has not been called.
NoCollect ==
    [pc |-> "idle", max_results |-> 0, display |-> 0, start |-> 0,
     current_display |-> 0, pages |-> <<>>, products |-> <<>>, stop |-> "none"]

\* search_products has not been called.
NoFetch == [pc |-> "idle", attempts |-> <<>>, error |-> "none"]

\* No request has been made.
NoRequest ==
    [kind |-> "none", display |-> 0, start |-> 0, offsets |-> <<>>,
     params |-> [display |-> 0, start |-> 0]]

ProductsInit ==
    /\ products = <<>>
    /\ seen = [id \in ProductIds |-> Unseen]
    /\ product_type = None
    /\ classified = NotParsed
    /\ counted = NoCounts
    /\ search = NoSearch
    /\ collect = NoCollect
    /\ fetch = NoFetch
    /\ request = NoRequest

OthersInit ==
    /\ response = NoResponse
    /\ RestInit
    /\ ProductsInit

allvars == <<vars, others>>

\* ------------------------------------------------------------- documents
\* A document that is not in its collection.
NoDoc == [exists |-> FALSE]

\* BatchCollection(csv_filename=..., total_keywords=n) with the field defaults.
NewBatch(n) ==
    [exists |-> TRUE, status |-> "pending", total_keywords |-> n,
     completed_keywords |-> 0, failed_keywords |-> 0, skipped_keywords |-> 0,
     current_keyword_index |-> 0, started_at |-> 0, completed_at |-> FALSE]

\* BatchKeyword(batch_id=..., keyword=k, order=o) with the field defaults.
NewKeyword(k, o) ==
    [exists |-> TRUE, keyword |-> k, order |-> o, status |-> "pending",
     previously_collected |-> FALSE, error_message |-> "none"]

\* The keyword lists a CSV can hold: non-empty, in file order, duplicates kept.
KeywordLists == UNION {[1..n -> Keywords] : n \in 1..MaxKeywords}

\* ----------------------------------------------------------- invocations
\* Locals of one invocation of start_batch_collection(batch_id).
IdleRun ==
    [pc |-> "idle", batch_id |-> NoBatch, batch |-> NoDoc, keywords |-> <<>>,
     idx |-> 0, result |-> "none", outcome |-> "none", named |-> NoBatch,
     save_error |-> FALSE]

IdleCtl == [op |-> "idle", batch_id |-> NoBatch, batch |-> NoDoc]

\* Positions past the lock-guarded check-and-set and before the release.
RunPcs ==
    {"load", "save_running", "list_keywords", "loop_top", "check_duplicate",
     "skip_save_keyword", "skip_save_batch", "collect_start", "collecting",
     "keyword_complete", "count", "handler_save_batch", "rate_limit",
     "complete", "except_find", "except_save", "finally"}

InRun(p) == run[p].pc \in RunPcs

\* keyword = keywords[idx] of the for loop (0-based idx over the selected list).
CurKeyword(p) == run[p].keywords[run[p].idx + 1]

\* BackgroundTasks.add_task(batch_service.start_batch_collection, batch_id):
\* the invocation slot that will run it.
FreeProc == CHOOSE p \in Procs : run[p].pc = "idle" /\ \A q \in Procs : run[q].pc = "idle" => p <= q
HasFreeProc == \E p \in Procs : run[p].pc = "idle"

AddTask(b) == [run EXCEPT ![FreeProc] = [IdleRun EXCEPT !.pc = "start", !.batch_id = b]]

Init ==
    /\ is_running = FALSE
    /\ current_batch_id = NoBatch
    /\ jobs = [b \in JobIds |-> NoDoc]
    /\ tasks = [b \in JobIds |-> <<>>]
    /\ history \in SUBSET Keywords
    /\ nextBatch = 0
    /\ run = [p \in Procs |-> IdleRun]
    /\ ctl = [h \in Handlers |-> IdleCtl]
    /\ published = [b \in JobIds |-> NoSnapshot]
    /\ OthersInit


\* --------------------------------------------------------------- storage
\* Document.save(): the whole local copy replaces the stored document
\* (inserted when the stored document is gone).
SaveBatch(b, doc) == [jobs EXCEPT ![b] = doc]

SaveKeyword(b, doc) == [tasks EXCEPT ![b][doc.order + 1] = doc]

\* keyword.<field> = ...; on the local object of the running invocation.
SetKeyword(p, doc) == [run[p].keywords EXCEPT ![run[p].idx + 1] = doc]

\* BatchKeyword.find(batch_id == b).sort("order").to_list()
FindKeywords(b) ==
    SelectSeq(tasks[b], LAMBDA k : k.exists)

\* The selection without its filter: every task of the batch.
SelectedUnfiltered(b) ==
    FindKeywords(b)

\* keywords = [k for k in keywords if k.status in ["pending", "failed"]]
SelectedKeywords(b) ==
    SelectSeq(FindKeywords(b), LAMBDA k : k.status \in {"pending", "failed"})

\* ------------------------------------------------ POST /batch/upload
\* upload_csv_batch: one BatchCollection, one BatchKeyword per CSV row in
\* file order, then the start is handed to the background tasks.
Upload(kws) ==
    /\ nextBatch < MaxJobs
    /\ HasFreeProc
    /\ LET b == nextBatch + 1 IN
        /\ nextBatch' = b
        /\ jobs' = [jobs EXCEPT ![b] = NewBatch(Len(kws))]
        /\ tasks' = [tasks EXCEPT ![b] = [i \in 1..Len(kws) |-> NewKeyword(kws[i], i - 1)]]
        /\ run' = AddTask(b)
    /\ UNCHANGED <<is_running, current_batch_id, history, ctl, others>>

\* ------------------------------------- start_batch_collection(batch_id)
\* Acquire without the test of is_running.
AcquireUnchecked(p) ==
    /\ run[p].pc = "start"
    /\ is_running' = TRUE
    /\ current_batch_id' = run[p].batch_id
    /\ run' = [run EXCEPT ![p].pc = "load"]
    /\ UNCHANGED <<jobs, tasks, history, nextBatch, ctl, others>>

\* The check-and-set with the raise inside the try: the finally block
\* runs for a rejected start as well.
AcquireBusyReleases(p) ==
    /\ run[p].pc = "start"
    /\ IF is_running
       THEN /\ run' = [run EXCEPT ![p].pc = "finally", ![p].outcome = "busy",
                                  ![p].named = current_batch_id]
            /\ UNCHANGED <<is_running, current_batch_id>>
       ELSE /\ is_running' = TRUE
            /\ current_batch_id' = run[p].batch_id
            /\ run' = [run EXCEPT ![p].pc = "load"]
    /\ UNCHANGED <<jobs, tasks, history, nextBatch, ctl, others>>

\* async with self._lock: check is_running, raise, or set it.  The lock is
\* never held across an await, so the block runs as one step.
Acquire(p) ==
    /\ run[p].pc = "start"
    /\ IF is_running
       THEN /\ run' = [run EXCEPT ![p].pc = "done", ![p].outcome = "busy",
                                  ![p].named = current_batch_id]
            /\ UNCHANGED <<is_running, current_batch_id>>
       ELSE /\ is_running' = TRUE
            /\ current_batch_id' = run[p].batch_id
            /\ run' = [run EXCEPT ![p].pc = "load"]
    /\ UNCHANGED <<jobs, tasks, history, nextBatch, ctl, others>>

\* The load stamping started_at whether it is set or not.
LoadBatchRestamp(p) ==
    /\ run[p].pc = "load"
    /\ LET doc == jobs[run[p].batch_id] IN
        IF ~doc.exists
        THEN run' = [run EXCEPT ![p].pc = "except_find"]
        ELSE run' = [run EXCEPT ![p].pc = "save_running",
                                ![p].batch = [doc EXCEPT !.status = "running", !.started_at = p]]
    /\ UNCHANGED <<is_running, current_batch_id, jobs, tasks, history, nextBatch, ctl, others>>

\* batch = find_one(...); not found raises ValueError; else status and
\* started_at are set on the local copy.
LoadBatch(p) ==
    /\ run[p].pc = "load"
    /\ LET doc == jobs[run[p].batch_id] IN
        IF ~doc.exists
        THEN run' = [run EXCEPT ![p].pc = "except_find"]
        ELSE run' = [run EXCEPT ![p].pc = "save_running",
                                ![p].batch = [doc EXCEPT !.status = "running",
                                           !.started_at = IF doc.started_at = 0 THEN p ELSE doc.started_at]]
    /\ UNCHANGED <<is_running, current_batch_id, jobs, tasks, history, nextBatch, ctl, others>>

\* await batch.save()
SaveRunning(p) ==
    /\ run[p].pc = "save_running"
    /\ jobs' = SaveBatch(run[p].batch_id, run[p].batch)
    /\ run' = [run EXCEPT ![p].pc = "list_keywords"]
    /\ UNCHANGED <<is_running, current_batch_id, tasks, history, nextBatch, ctl, response, rest>>
    /\ published' = Broadcast(run[p].batch_id, run[p].batch)

\* The pending or failed keywords of the batch, in order.
ListKeywords(p) ==
    /\ run[p].pc = "list_keywords"
    /\ LET sel == SelectedKeywords(run[p].batch_id) IN
        run' = [run EXCEPT ![p].keywords = sel, ![p].idx = 0,
                           ![p].pc = IF Len(sel) = 0 THEN "complete" ELSE "loop_top"]
    /\ UNCHANGED <<is_running, current_batch_id, jobs, tasks, history, nextBatch, ctl, others>>

\* Top of the for loop: the batch is read again; paused or cancelled
\* returns; a batch that is gone makes batch.status raise AttributeError.
LoopTop(p) ==
    /\ run[p].pc = "loop_top"
    /\ LET doc == jobs[run[p].batch_id] IN
        IF ~doc.exists
        THEN run' = [run EXCEPT ![p].pc = "except_find", ![p].batch = doc]
        ELSE IF doc.status \in {"paused", "cancelled"}
        THEN run' = [run EXCEPT ![p].pc = "finally", ![p].batch = doc,
                                ![p].outcome = "returned"]
        ELSE run' = [run EXCEPT ![p].pc = "check_duplicate", ![p].batch = doc]
    /\ UNCHANGED <<is_running, current_batch_id, jobs, tasks, history, nextBatch, ctl, response, rest>>
    /\ published' = (IF jobs[run[p].batch_id].exists /\ jobs[run[p].batch_id].status \in {"paused", "cancelled"}
                     THEN Broadcast(run[p].batch_id, jobs[run[p].batch_id])
                     ELSE published)

\* _check_duplicate: any ProductSearchResponse of the keyword, of any age.
IsDuplicate(k) == k \in history

CheckDuplicate(p) ==
    /\ run[p].pc = "check_duplicate"
    /\ run' = [run EXCEPT ![p].pc = IF IsDuplicate(CurKeyword(p).keyword)
                                    THEN "skip_save_keyword" ELSE "collect_start"]
    /\ UNCHANGED <<is_running, current_batch_id, jobs, tasks, history, nextBatch, ctl, others>>

\* keyword.status = "skipped"; previously_collected = True; keyword.save()
SkipSaveKeyword(p) ==
    /\ run[p].pc = "skip_save_keyword"
    /\ LET doc == [CurKeyword(p) EXCEPT !.status = "skipped", !.previously_collected = TRUE] IN
        /\ tasks' = SaveKeyword(run[p].batch_id, doc)
        /\ run' = [run EXCEPT ![p].keywords = SetKeyword(p, doc), ![p].pc = "skip_save_batch"]
    /\ UNCHANGED <<is_running, current_batch_id, jobs, history, nextBatch, ctl, others>>

\* The save of a skip leaving the for loop instead of continuing it.
SkipSaveBatchEndsLoop(p) ==
    /\ run[p].pc = "skip_save_batch"
    /\ LET doc == [run[p].batch EXCEPT !.skipped_keywords = @ + 1,
                                       !.current_keyword_index = run[p].idx + 1] IN
        /\ jobs' = SaveBatch(run[p].batch_id, doc)
        /\ run' = [run EXCEPT ![p].batch = doc, ![p].idx = @ + 1, ![p].pc = "complete"]
    /\ UNCHANGED <<is_running, current_batch_id, tasks, history, nextBatch, ctl, response, rest>>
    /\ published' = Broadcast(run[p].batch_id, jobs'[run[p].batch_id])

\* batch.skipped_keywords += 1; current_keyword_index = idx + 1; save; continue
SkipSaveBatch(p) ==
    /\ run[p].pc = "skip_save_batch"
    /\ LET doc == [run[p].batch EXCEPT !.skipped_keywords = @ + 1,
                                       !.current_keyword_index = run[p].idx + 1] IN
        /\ jobs' = SaveBatch(run[p].batch_id, doc)
        /\ run' = [run EXCEPT ![p].batch = doc, ![p].idx = @ + 1,
                              ![p].pc = IF run[p].idx + 1 < Len(run[p].keywords)
                                        THEN "loop_top" ELSE "complete"]
    /\ UNCHANGED <<is_running, current_batch_id, tasks, history, nextBatch, ctl, response, rest>>
    /\ published' = Broadcast(run[p].batch_id, jobs'[run[p].batch_id])

\* _collect_keyword: keyword.status = "running"; started_at; keyword.save()
CollectStart(p) ==
    /\ run[p].pc = "collect_start"
    /\ LET doc == [CurKeyword(p) EXCEPT !.status = "running"] IN
        /\ tasks' = SaveKeyword(run[p].batch_id, doc)
        /\ run' = [run EXCEPT ![p].keywords = SetKeyword(p, doc), ![p].pc = "collecting"]
    /\ UNCHANGED <<is_running, current_batch_id, jobs, history, nextBatch, ctl, others>>

\* The external call naver_api.search_and_collect under asyncio.wait_for
\* ends in one of five ways; each action below is the end of the call
\* together with the code up to the completion of the next await.
\*
\* A non-empty product list is returned and stored (Product.find,
\* insert_many, save); search_history.insert() writes the ledger entry.
CollectOk(p) ==
    /\ run[p].pc = "collecting"
    /\ history' = history \cup {CurKeyword(p).keyword}
    /\ run' = [run EXCEPT ![p].pc = "keyword_complete"]
    /\ UNCHANGED <<is_running, current_batch_id, jobs, tasks, nextBatch, ctl, others>>

\* keyword.status = "completed" with its counts; keyword.save(); return success
KeywordComplete(p) ==
    /\ run[p].pc = "keyword_complete"
    /\ LET doc == [CurKeyword(p) EXCEPT !.status = "completed"] IN
        /\ tasks' = SaveKeyword(run[p].batch_id, doc)
        /\ run' = [run EXCEPT ![p].keywords = SetKeyword(p, doc),
                              ![p].pc = "count", ![p].result = "success"]
    /\ UNCHANGED <<is_running, current_batch_id, jobs, history, nextBatch, ctl, others>>

\* The return for an empty list without the save of the keyword.
CollectEmptyUnsaved(p) ==
    /\ run[p].pc = "collecting"
    /\ run' = [run EXCEPT ![p].pc = "count", ![p].result = "success"]
    /\ UNCHANGED <<is_running, current_batch_id, jobs, tasks, history, nextBatch, ctl, others>>

\* An empty list is returned (if not products): keyword completed, saved;
\* return success; no ledger entry is written.
CollectEmpty(p) ==
    /\ run[p].pc = "collecting"
    /\ LET doc == [CurKeyword(p) EXCEPT !.status = "completed"] IN
        /\ tasks' = SaveKeyword(run[p].batch_id, doc)
        /\ run' = [run EXCEPT ![p].keywords = SetKeyword(p, doc),
                              ![p].pc = "count", ![p].result = "success"]
    /\ UNCHANGED <<is_running, current_batch_id, jobs, history, nextBatch, ctl, others>>

\* except asyncio.TimeoutError / except Exception of _collect_keyword:
\* keyword failed with its message, saved; return failed.
CollectFailed(p, message) ==
    /\ run[p].pc = "collecting"
    /\ LET doc == [CurKeyword(p) EXCEPT !.status = "failed", !.error_message = message] IN
        /\ tasks' = SaveKeyword(run[p].batch_id, doc)
        /\ run' = [run EXCEPT ![p].keywords = SetKeyword(p, doc),
                              ![p].pc = "count", ![p].result = "failed"]
    /\ UNCHANGED <<is_running, current_batch_id, jobs, history, nextBatch, ctl, others>>

\* The call runs into the 600 s timeout of asyncio.wait_for.
CollectTimeout(p) == CollectFailed(p, "timeout")

\* The call raises any other exception (network error, API error).
CollectError(p) == CollectFailed(p, "collect_error")

\* Storing the fetched records raises: the exception leaves
\* _collect_keyword and is caught by the except of the for loop body:
\* keyword failed with str(e), saved.
StoreRaise(p) ==
    /\ run[p].pc = "collecting"
    /\ LET doc == [CurKeyword(p) EXCEPT !.status = "failed", !.error_message = "exception"] IN
        /\ tasks' = SaveKeyword(run[p].batch_id, doc)
        /\ run' = [run EXCEPT ![p].keywords = SetKeyword(p, doc),
                              ![p].pc = "handler_save_batch", ![p].result = "failed"]
    /\ UNCHANGED <<is_running, current_batch_id, jobs, history, nextBatch, ctl, others>>

\* The count storing a cursor one past the task after the processed one.
CountPastCursor(p) ==
    /\ run[p].pc = "count"
    /\ LET doc == [run[p].batch EXCEPT
                      !.completed_keywords = IF run[p].result = "success" THEN @ + 1 ELSE @,
                      !.failed_keywords = IF run[p].result = "success" THEN @ ELSE @ + 1,
                      !.current_keyword_index = run[p].idx + 2] IN
        /\ jobs' = SaveBatch(run[p].batch_id, doc)
        /\ run' = [run EXCEPT ![p].batch = doc, ![p].pc = "rate_limit"]
    /\ UNCHANGED <<is_running, current_batch_id, tasks, history, nextBatch, ctl, response, rest>>
    /\ published' = Broadcast(run[p].batch_id, jobs'[run[p].batch_id])

\* completed_keywords or failed_keywords += 1; current_keyword_index =
\* idx + 1; batch.save()
Count(p) ==
    /\ run[p].pc = "count"
    /\ LET doc == [run[p].batch EXCEPT
                      !.completed_keywords = IF run[p].result = "success" THEN @ + 1 ELSE @,
                      !.failed_keywords = IF run[p].result = "success" THEN @ ELSE @ + 1,
                      !.current_keyword_index = run[p].idx + 1] IN
        /\ jobs' = SaveBatch(run[p].batch_id, doc)
        /\ run' = [run EXCEPT ![p].batch = doc, ![p].pc = "rate_limit"]
    /\ UNCHANGED <<is_running, current_batch_id, tasks, history, nextBatch, ctl, response, rest>>
    /\ published' = Broadcast(run[p].batch_id, jobs'[run[p].batch_id])

\* except of the loop body: failed_keywords += 1; current_keyword_index =
\* idx + 1; batch.save()
HandlerSaveBatch(p) ==
    /\ run[p].pc = "handler_save_batch"
    /\ LET doc == [run[p].batch EXCEPT !.failed_keywords = @ + 1,
                                       !.current_keyword_index = run[p].idx + 1] IN
        /\ jobs' = SaveBatch(run[p].batch_id, doc)
        /\ run' = [run EXCEPT ![p].batch = doc, ![p].pc = "rate_limit"]
    /\ UNCHANGED <<is_running, current_batch_id, tasks, history, nextBatch, ctl, response, rest>>
    /\ published' = Broadcast(run[p].batch_id, jobs'[run[p].batch_id])

\* Rate limiting at the end of the loop body, reached when the broadcast
\* after the save has returned: if idx < len(keywords) - 1: wait_seconds =
\* batch.rate_limit_seconds ...  After the last selected keyword the for
\* loop is left.  After any other the delay is read from the batch
\* document: BatchCollection declares no field rate_limit_seconds
\* (models/batch.py) and upload_csv_batch sets none, so the read raises
\* AttributeError outside the try of the loop body; the wait loop below it
\* is never entered and the outer except of start_batch_collection takes
\* over.
RateLimit(p) ==
    /\ run[p].pc = "rate_limit"
    /\ IF run[p].idx < Len(run[p].keywords) - 1
       THEN run' = [run EXCEPT ![p].pc = "except_find"]
       ELSE run' = [run EXCEPT ![p].pc = "complete", ![p].idx = @ + 1]
    /\ UNCHANGED <<is_running, current_batch_id, jobs, tasks, history, nextBatch, ctl, others>>

\* batch.status = "completed"; completed_at; batch.save()
Complete(p) ==
    /\ run[p].pc = "complete"
    /\ LET doc == [run[p].batch EXCEPT !.status = "completed", !.completed_at = TRUE] IN
        /\ jobs' = SaveBatch(run[p].batch_id, doc)
        /\ run' = [run EXCEPT ![p].batch = doc, ![p].pc = "finally", ![p].outcome = "returned"]
    /\ UNCHANGED <<is_running, current_batch_id, tasks, history, nextBatch, ctl, response, rest>>
    /\ published' = Broadcast(run[p].batch_id, jobs'[run[p].batch_id])

\* The handler reading the batch again without marking it failed.
ExceptFindUnmarked(p) ==
    /\ run[p].pc = "except_find"
    /\ LET doc == jobs[run[p].batch_id] IN
        IF doc.exists
        THEN run' = [run EXCEPT ![p].pc = "except_save", ![p].outcome = "raised", ![p].batch = doc]
        ELSE run' = [run EXCEPT ![p].pc = "finally", ![p].outcome = "raised", ![p].batch = doc]
    /\ UNCHANGED <<is_running, current_batch_id, jobs, tasks, history, nextBatch, ctl, others>>

\* except Exception: the batch is read again; if it exists it is marked
\* failed on the local copy; the exception is re-raised after the save.
ExceptFind(p) ==
    /\ run[p].pc = "except_find"
    /\ LET doc == jobs[run[p].batch_id] IN
        IF doc.exists
        THEN run' = [run EXCEPT ![p].pc = "except_save", ![p].outcome = "raised",
                        ![p].batch = [doc EXCEPT !.status = "failed", !.completed_at = TRUE]]
        ELSE run' = [run EXCEPT ![p].pc = "finally", ![p].outcome = "raised", ![p].batch = doc]
    /\ UNCHANGED <<is_running, current_batch_id, jobs, tasks, history, nextBatch, ctl, others>>

ExceptSave(p) ==
    /\ run[p].pc = "except_save"
    /\ jobs' = SaveBatch(run[p].batch_id, run[p].batch)
    /\ run' = [run EXCEPT ![p].pc = "finally"]
    /\ UNCHANGED <<is_running, current_batch_id, tasks, history, nextBatch, ctl, response, rest>>
    /\ published' = Broadcast(run[p].batch_id, run[p].batch)

\* The handler that marks the batch failed fails itself (find_one or
\* save raises, for instance because the database cannot be reached):
\* except Exception as save_error logs it; nothing is stored and the
\* first exception is re-raised.
ExceptFails(p) ==
    /\ run[p].pc \in {"except_find", "except_save"}
    /\ run' = [run EXCEPT ![p].pc = "finally", ![p].outcome = "raised",
                          ![p].save_error = TRUE]
    /\ UNCHANGED <<is_running, current_batch_id, jobs, tasks, history, nextBatch, ctl, others>>

\* Finally that releases the flag on a normal return only.
FinallyOnReturnOnly(p) ==
    /\ run[p].pc = "finally"
    /\ is_running' = (run[p].outcome = "raised")
    /\ current_batch_id' = IF run[p].outcome = "raised" THEN current_batch_id ELSE NoBatch
    /\ run' = [run EXCEPT ![p] = [IdleRun EXCEPT !.pc = "done", !.batch_id = run[p].batch_id,
                                                 !.outcome = run[p].outcome,
                                                 !.save_error = run[p].save_error]]
    /\ UNCHANGED <<jobs, tasks, history, nextBatch, ctl, others>>

\* finally: async with self._lock: is_running = False; current_batch_id = None
Finally(p) ==
    /\ run[p].pc = "finally"
    /\ is_running' = FALSE
    /\ current_batch_id' = NoBatch
    /\ run' = [run EXCEPT ![p] = [IdleRun EXCEPT !.pc = "done", !.batch_id = run[p].batch_id,
                                                 !.outcome = run[p].outcome,
                                                 !.save_error = run[p].save_error]]
    /\ UNCHANGED <<jobs, tasks, history, nextBatch, ctl, others>>

\* ------------------------------------------------ control surface
\* A request handler reads the batch (find_one), checks its status and
\* writes its local copy back (save) after a further await: the run loop
\* and other handlers run in between.  A request that is refused (404,
\* 400) changes nothing and is left out.

\* POST /batch/{id}/pause: only a running batch; status = "paused" ...
PauseRead(h, b) ==
    /\ ctl[h].op = "idle"
    /\ jobs[b].exists
    /\ jobs[b].status = "running"
    /\ ctl' = [ctl EXCEPT ![h] = [op |-> "pause", batch_id |-> b,
                                  batch |-> [jobs[b] EXCEPT !.status = "paused"]]]
    /\ UNCHANGED <<is_running, current_batch_id, jobs, tasks, history, nextBatch, run>>

\* ... await batch.save()
PauseSave(h) ==
    /\ ctl[h].op = "pause"
    /\ jobs' = SaveBatch(ctl[h].batch_id, ctl[h].batch)
    /\ ctl' = [ctl EXCEPT ![h] = IdleCtl]
    /\ UNCHANGED <<is_running, current_batch_id, tasks, history, nextBatch, run, others>>

\* POST /batch/{id}/cancel: a running, paused or pending batch;
\* status = "cancelled", completed_at ...
CancelRead(h, b) ==
    /\ ctl[h].op = "idle"
    /\ jobs[b].exists
    /\ jobs[b].status \in {"running", "paused", "pending"}
    /\ ctl' = [ctl EXCEPT ![h] = [op |-> "cancel", batch_id |-> b,
                                  batch |-> [jobs[b] EXCEPT !.status = "cancelled",
                                                            !.completed_at = TRUE]]]
    /\ UNCHANGED <<is_running, current_batch_id, jobs, tasks, history, nextBatch, run>>

\* ... await batch.save()
CancelSave(h) ==
    /\ ctl[h].op = "cancel"
    /\ jobs' = SaveBatch(ctl[h].batch_id, ctl[h].batch)
    /\ ctl' = [ctl EXCEPT ![h] = IdleCtl]
    /\ UNCHANGED <<is_running, current_batch_id, tasks, history, nextBatch, run, others>>

\* POST /batch/{id}/resume: only a paused batch; the start is handed to the
\* background tasks; the stored document is not written.
Resume(b) ==
    /\ jobs[b].exists
    /\ jobs[b].status = "paused"
    /\ HasFreeProc
    /\ run' = AddTask(b)
    /\ UNCHANGED <<is_running, current_batch_id, jobs, tasks, history, nextBatch, ctl>>

\* DELETE /batch/{id}: refused for a running or pending batch ...
DeleteRead(h, b) ==
    /\ ctl[h].op = "idle"
    /\ jobs[b].exists
    /\ jobs[b].status \notin {"running", "pending"}
    /\ ctl' = [ctl EXCEPT ![h] = [op |-> "delete_keywords", batch_id |-> b, batch |-> NoDoc]]
    /\ UNCHANGED <<is_running, current_batch_id, jobs, tasks, history, nextBatch, run>>

\* ... await BatchKeyword.find(batch_id == b).delete() ...
DeleteKeywords(h) ==
    /\ ctl[h].op = "delete_keywords"
    /\ tasks' = [tasks EXCEPT ![ctl[h].batch_id] = [i \in DOMAIN @ |-> NoDoc]]
    /\ ctl' = [ctl EXCEPT ![h].op = "delete_batch"]
    /\ UNCHANGED <<is_running, current_batch_id, jobs, history, nextBatch, run, others>>

\* ... await batch.delete()
DeleteBatch(h) ==
    /\ ctl[h].op = "delete_batch"
    /\ jobs' = [jobs EXCEPT ![ctl[h].batch_id] = NoDoc]
    /\ ctl' = [ctl EXCEPT ![h] = IdleCtl]
    /\ UNCHANGED <<is_running, current_batch_id, tasks, history, nextBatch, run, others>>

\* ------------------------------------------------------- specifications
\* The steps of invocation p that need nothing from outside the process.
RunStep(p) ==
    \/ Acquire(p)
    \/ LoadBatch(p)
    \/ SaveRunning(p)
    \/ ListKeywords(p)
    \/ LoopTop(p)
    \/ CheckDuplicate(p)
    \/ SkipSaveKeyword(p)
    \/ SkipSaveBatch(p)
    \/ CollectStart(p)
    \/ KeywordComplete(p)
    \/ Count(p)
    \/ HandlerSaveBatch(p)
    \/ RateLimit(p)
    \/ Complete(p)
    \/ ExceptFind(p)
    \/ ExceptSave(p)
    \/ Finally(p)

\* The ways the external call and the storing of its records can end.
CollectStep(p) ==
    \/ CollectOk(p)
    \/ CollectEmpty(p)
    \/ CollectTimeout(p)
    \/ CollectError(p)
    \/ StoreRaise(p)

\* A failure of the database while invocation p handles an exception.
FaultStep(p) ==
    ExceptFails(p)

ControlStep ==
    \/ \E h \in Handlers, b \in JobIds : PauseRead(h, b) /\ UNCHANGED others
    \/ \E h \in Handlers : PauseSave(h)
    \/ \E h \in Handlers, b \in JobIds : CancelRead(h, b) /\ UNCHANGED others
    \/ \E h \in Handlers : CancelSave(h)
    \/ \E b \in JobIds : Resume(b) /\ UNCHANGED others
    \/ \E h \in Handlers, b \in JobIds : DeleteRead(h, b) /\ UNCHANGED others
    \/ \E h \in Handlers : DeleteKeywords(h)
    \/ \E h \in Handlers : DeleteBatch(h)

Next ==
    \/ \E kws \in KeywordLists : Upload(kws)
    \/ \E p \in Procs : RunStep(p)
    \/ \E p \in Procs : CollectStep(p)
    \/ ControlStep

Spec == Init /\ [][Next]_allvars

\* asyncio runs every coroutine that is ready, every await on the database
\* completes, and the external call ends by its return, its exception or
\* the timeout of asyncio.wait_for: an invocation that can step does step.
FairSpec == Spec /\ \A p \in Procs : WF_allvars(RunStep(p) \/ CollectStep(p))

\* The same program when the database can fail while the handler of an
\* exception reads or saves the batch (Spec has a database that answers
\* every request of the handler).
NextFault ==
    \/ \E kws \in KeywordLists : Upload(kws)
    \/ \E p \in Procs : RunStep(p)
    \/ \E p \in Procs : CollectStep(p)
    \/ \E p \in Procs : FaultStep(p)
    \/ ControlStep

SpecFault == Init /\ [][NextFault]_allvars

\* A run that nothing disturbs: no control request, and every external
\* call returns at least one item and its records are stored.
QuietStep(p) ==
    \/ Acquire(p)
    \/ LoadBatch(p)
    \/ SaveRunning(p)
    \/ ListKeywords(p)
    \/ LoopTop(p)
    \/ CheckDuplicate(p)
    \/ SkipSaveKeyword(p)
    \/ SkipSaveBatch(p)
    \/ CollectStart(p)
    \/ CollectOk(p)
    \/ KeywordComplete(p)
    \/ Count(p)
    \/ RateLimit(p)
    \/ Complete(p)
    \/ ExceptFind(p)
    \/ ExceptSave(p)
    \/ Finally(p)

NextQuiet ==
    \/ \E kws \in KeywordLists : Upload(kws)
    \/ \E p \in Procs : QuietStep(p)

SpecQuiet == Init /\ [][NextQuiet]_allvars

\* A run that no control request disturbs: no pause, resume, cancel or
\* delete is issued; the external calls end in any of their ways.
NextNoControl ==
    \/ \E kws \in KeywordLists : Upload(kws)
    \/ \E p \in Procs : RunStep(p)
    \/ \E p \in Procs : CollectStep(p)

SpecNoControl == Init /\ [][NextNoControl]_allvars

\* ------------------------------------ control surface with its answers
\* The requests of the control surface together with what the handler
\* answers: 404 when find_one returns nothing, 400 when the status check
\* refuses the request (raise HTTPException, re-raised by except
\* HTTPException: raise), and the handler going on otherwise.  Nothing is
\* awaited between find_one and the raise, so an answered refusal is one
\* step.
Answer(o, b, c) == [op |-> o, batch_id |-> b, code |-> c]

\* pause_batch accepting whatever the status is.
PauseRequestUnchecked(h, b) ==
    /\ ctl[h].op = "idle"
    /\ jobs[b].exists
    /\ ctl' = [ctl EXCEPT ![h] = [op |-> "pause", batch_id |-> b,
                                  batch |-> [jobs[b] EXCEPT !.status = "paused"]]]
    /\ response' = Answer("pause", b, "accepted")
    /\ UNCHANGED <<is_running, current_batch_id, jobs, tasks, history, nextBatch, run,
                   published, rest>>

\* POST /batch/{id}/pause
PauseRequest(h, b) ==
    /\ ctl[h].op = "idle"
    /\ UNCHANGED <<published, rest>>
    /\ IF ~jobs[b].exists
       THEN response' = Answer("pause", b, "404") /\ UNCHANGED vars
       ELSE IF jobs[b].status # "running"
       THEN response' = Answer("pause", b, "400") /\ UNCHANGED vars
       ELSE PauseRead(h, b) /\ response' = Answer("pause", b, "accepted")

\* POST /batch/{id}/resume
ResumeRequest(b) ==
    /\ UNCHANGED <<published, rest>>
    /\ IF ~jobs[b].exists
       THEN response' = Answer("resume", b, "404") /\ UNCHANGED vars
       ELSE IF jobs[b].status # "paused"
       THEN response' = Answer("resume", b, "400") /\ UNCHANGED vars
       ELSE Resume(b) /\ response' = Answer("resume", b, "accepted")

\* POST /batch/{id}/cancel
CancelRequest(h, b) ==
    /\ ctl[h].op = "idle"
    /\ UNCHANGED <<published, rest>>
    /\ IF ~jobs[b].exists
       THEN response' = Answer("cancel", b, "404") /\ UNCHANGED vars
       ELSE IF jobs[b].status \notin {"running", "paused", "pending"}
       THEN response' = Answer("cancel", b, "400") /\ UNCHANGED vars
       ELSE CancelRead(h, b) /\ response' = Answer("cancel", b, "accepted")

\* DELETE /batch/{id}
DeleteRequest(h, b) ==
    /\ ctl[h].op = "idle"
    /\ UNCHANGED <<published, rest>>
    /\ IF ~jobs[b].exists
       THEN response' = Answer("delete", b, "404") /\ UNCHANGED vars
       ELSE IF jobs[b].status \in {"running", "pending"}
       THEN response' = Answer("delete", b, "400") /\ UNCHANGED vars
       ELSE DeleteRead(h, b) /\ response' = Answer("delete", b, "accepted")

\* The second halves of the handlers: the awaits after the status check.
ControlSave(h) ==
    \/ PauseSave(h)
    \/ CancelSave(h)
    \/ DeleteKeywords(h)
    \/ DeleteBatch(h)

NextCtl ==
    \/ \E kws \in KeywordLists : Upload(kws)
    \/ \E p \in Procs : RunStep(p)
    \/ \E p \in Procs : CollectStep(p)
    \/ \E h \in Handlers, b \in JobIds : PauseRequest(h, b)
    \/ \E b \in JobIds : ResumeRequest(b)
    \/ \E h \in Handlers, b \in JobIds : CancelRequest(h, b)
    \/ \E h \in Handlers, b \in JobIds : DeleteRequest(h, b)
    \/ \E h \in Handlers : ControlSave(h)

SpecCtl == Init /\ [][NextCtl]_allvars

\* -------------------------------------------------------- broadcaster
\* ConnectionManager of routes/websocket.py and the websocket endpoint
\* batch_websocket.  One action is the code between two awaits.

\* The variables the broadcaster leaves alone.
beyond ==
    <<vars, response, published, products, seen, product_type, classified,
      counted, search, collect, fetch, request>>

\* self.active_connections[batch_id], empty when the key is missing.
Connected(b) == IF b \in DOMAIN active_connections THEN active_connections[b] ELSE {}

\* self.active_connections[b] = set
Put(b, set) ==
    [x \in DOMAIN active_connections \cup {b} |-> IF x = b THEN set ELSE active_connections[x]]

\* del self.active_connections[b]
Del(b) == [x \in DOMAIN active_connections \ {b} |-> active_connections[x]]

\* batch_websocket calls manager.connect: await websocket.accept()
WsConnect(w, b) ==
    /\ sock[w].state = "new"
    /\ sock' = [sock EXCEPT ![w] = [state |-> "accepting", batch_id |-> b]]
    /\ UNCHANGED <<active_connections, bcast, beyond>>

\* accept() has returned: the set of the batch id is created when missing
\* and the websocket is added; the endpoint then waits in receive_text.
WsAccept(w) ==
    /\ sock[w].state = "accepting"
    /\ active_connections' = Put(sock[w].batch_id, Connected(sock[w].batch_id) \cup {w})
    /\ sock' = [sock EXCEPT ![w].state = "open"]
    /\ UNCHANGED <<bcast, beyond>>

\* accept() raises (the client is gone): connect registers nothing.
WsAcceptFails(w) ==
    /\ sock[w].state = "accepting"
    /\ sock' = [sock EXCEPT ![w].state = "refused"]
    /\ UNCHANGED <<active_connections, bcast, beyond>>

\* disconnect that leaves an emptied set in the mapping.
DisconnectKeepsKey(w) ==
    /\ sock[w].state = "open"
    /\ active_connections' =
          IF sock[w].batch_id \in DOMAIN active_connections
          THEN Put(sock[w].batch_id, active_connections[sock[w].batch_id] \ {w})
          ELSE active_connections
    /\ sock' = [sock EXCEPT ![w].state = "gone"]
    /\ UNCHANGED <<bcast, beyond>>

\* receive_text raises WebSocketDisconnect (or another exception): the
\* endpoint calls manager.disconnect: discard, and del of the emptied set.
WsDisconnect(w) ==
    /\ sock[w].state = "open"
    /\ LET b == sock[w].batch_id IN
        active_connections' =
            IF b \in DOMAIN active_connections
            THEN IF active_connections[b] \ {w} = {}
                 THEN Del(b)
                 ELSE Put(b, active_connections[b] \ {w})
            ELSE active_connections
    /\ sock' = [sock EXCEPT ![w].state = "gone"]
    /\ UNCHANGED <<bcast, beyond>>

\* The connections the for loop of broadcast takes the next one from,
\* taken from the live set instead of the copy.
RemainingLive(call) ==
    {w \in Connected(call.batch_id) : call.tried[w] = 0}

\* for connection in connections: what is left of the copy made when the
\* call began.
Remaining(call) ==
    call.connections

\* The loop of broadcast left at the first send that fails: the failed
\* connection is discarded and the rest of the copy is not tried.
ContinueStopOnFailure(c, call) ==
    LET b == call.batch_id IN
    IF Remaining(call) # {} /\ call.disconnected = {}
    THEN /\ \E w \in Remaining(call) :
              bcast' = [bcast EXCEPT ![c] =
                           [call EXCEPT !.pc = "sending", !.connection = w,
                                        !.connections = @ \ {w},
                                        !.tried[w] = @ + 1]]
         /\ UNCHANGED active_connections
    ELSE /\ bcast' = [bcast EXCEPT ![c] = [call EXCEPT !.pc = "done", !.outcome = "returned"]]
         /\ active_connections' =
               IF b \notin DOMAIN active_connections
               THEN active_connections
               ELSE IF active_connections[b] \ call.disconnected = {}
               THEN Del(b)
               ELSE Put(b, active_connections[b] \ call.disconnected)

\* The code of broadcast from the return of one send to the next await:
\* the next send is started, or, after the last one, the disconnected
\* connections are discarded from self.active_connections[batch_id]
\* (KeyError when the key is gone and there is something to discard), the
\* emptied set is deleted and broadcast returns.
Continue(c, call) ==
    LET b == call.batch_id IN
    IF Remaining(call) # {}
    THEN /\ \E w \in Remaining(call) :
              bcast' = [bcast EXCEPT ![c] =
                           [call EXCEPT !.pc = "sending", !.connection = w,
                                        !.connections = @ \ {w},
                                        !.tried[w] = @ + 1]]
         /\ UNCHANGED active_connections
    ELSE IF call.disconnected # {} /\ b \notin DOMAIN active_connections
    THEN /\ bcast' = [bcast EXCEPT ![c] = [call EXCEPT !.pc = "done", !.outcome = "raised"]]
         /\ UNCHANGED active_connections
    ELSE /\ bcast' = [bcast EXCEPT ![c] = [call EXCEPT !.pc = "done", !.outcome = "returned"]]
         /\ active_connections' =
               IF b \notin DOMAIN active_connections
               THEN active_connections
               ELSE IF active_connections[b] \ call.disconnected = {}
               THEN Del(b)
               ELSE Put(b, active_connections[b] \ call.disconnected)

\* manager.broadcast(batch_id, message): returns at once when the batch id
\* has no entry; else copies the set and starts the first send.
BroadcastBegin(c, b) ==
    /\ bcast[c].pc = "idle"
    /\ IF b \notin DOMAIN active_connections
       THEN /\ bcast' = [bcast EXCEPT ![c] = [NoCall EXCEPT !.pc = "done", !.batch_id = b,
                                                           !.outcome = "returned"]]
            /\ UNCHANGED active_connections
       ELSE Continue(c, [NoCall EXCEPT !.batch_id = b, !.began = active_connections[b],
                                       !.connections = active_connections[b]])
    /\ UNCHANGED <<sock, beyond>>

\* await connection.send_json(message) returns: the client is there.
SendOk(c) ==
    /\ bcast[c].pc = "sending"
    /\ sock[bcast[c].connection].state = "open"
    /\ Continue(c, bcast[c])
    /\ UNCHANGED <<sock, beyond>>

\* await connection.send_json(message) raises WebSocketDisconnect or any
\* other exception: the connection is put into disconnected.  The send to
\* a stalled client neither returns nor raises.
SendRaises(c) ==
    /\ bcast[c].pc = "sending"
    /\ sock[bcast[c].connection].state # "stalled"
    /\ Continue(c, [bcast[c] EXCEPT !.disconnected = @ \cup {bcast[c].connection}])
    /\ UNCHANGED <<sock, beyond>>

NextWs ==
    \/ \E w \in Sockets, b \in BatchIds : WsConnect(w, b)
    \/ \E w \in Sockets : WsAccept(w)
    \/ \E w \in Sockets : WsAcceptFails(w)
    \/ \E w \in Sockets : WsDisconnect(w)
    \/ \E c \in Calls, b \in BatchIds : BroadcastBegin(c, b)
    \/ \E c \in Calls : SendOk(c)
    \/ \E c \in Calls : SendRaises(c)

SpecWs == Init /\ [][NextWs]_allvars

\* A client stops reading without closing (a slow or dead connection): it
\* stays registered, receive_text of its endpoint does not return, and a
\* send_json to it does not complete: broadcast awaits the send with no
\* timeout (await connection.send_json(message)).
WsStall(w) ==
    /\ sock[w].state = "open"
    /\ sock' = [sock EXCEPT ![w].state = "stalled"]
    /\ UNCHANGED <<active_connections, bcast, beyond>>

NextStall ==
    \/ \E w \in Sockets, b \in BatchIds : WsConnect(w, b)
    \/ \E w \in Sockets : WsAccept(w)
    \/ \E w \in Sockets : WsAcceptFails(w)
    \/ \E w \in Sockets : WsDisconnect(w)
    \/ \E w \in Sockets : WsStall(w)
    \/ \E c \in Calls, b \in BatchIds : BroadcastBegin(c, b)
    \/ \E c \in Calls : SendOk(c)
    \/ \E c \in Calls : SendRaises(c)

\* Every send that can complete does complete, by its return or by its
\* exception, and the event loop then runs broadcast on.
FairSpecStall ==
    /\ Init /\ [][NextStall]_allvars
    /\ \A c \in Calls : WF_allvars(SendOk(c) \/ SendRaises(c))

\* ------------------------------------------------------ product store
\* _collect_keyword, lines 339-384: the fetched products are stored.  Only
\* one run loop executes at a time, so the block runs without another
\* writer of the batch service in between.

\* existing_map = {p.product_id: p for p in existing_products}: the record
\* the map keeps for an id is the last one find returned (0: not stored).
RECURSIVE ExistingIndex(_, _, _)
ExistingIndex(store, id, i) ==
    IF i = 0 THEN 0
    ELSE IF store[i].product_id = id THEN i
    ELSE ExistingIndex(store, id, i - 1)

\* The loop replacing the whole existing record by the fetched product.
RECURSIVE ClassifyReplace(_, _, _, _, _)
ClassifyReplace(existing, store, inserts, fetched, i) ==
    IF i > Len(fetched) THEN <<store, inserts>>
    ELSE LET product == fetched[i]
             at == ExistingIndex(existing, product.product_id, Len(existing))
         IN IF at # 0
            THEN ClassifyReplace(existing, [store EXCEPT ![at] = product],
                                 inserts, fetched, i + 1)
            ELSE ClassifyReplace(existing, store, Append(inserts, product), fetched, i + 1)

\* for product in products: an id of existing_map has the price fields of
\* its record overwritten (products_to_update), any other product goes to
\* products_to_insert.  existing_map is not changed by the loop.
\* Returns <<the store with the updates made, products_to_insert>>.
RECURSIVE Classify(_, _, _, _, _)
Classify(existing, store, inserts, fetched, i) ==
    IF i > Len(fetched) THEN <<store, inserts>>
    ELSE LET product == fetched[i]
             at == ExistingIndex(existing, product.product_id, Len(existing))
         IN IF at # 0
            THEN Classify(existing, [store EXCEPT ![at].lprice = product.lprice],
                          inserts, fetched, i + 1)
            ELSE Classify(existing, store, Append(inserts, product), fetched, i + 1)

\* saved_count += 1 for every product put into products_to_insert,
\* updated_count += 1 for every other product of the fetched list; they
\* are stored as new_products and updated_products of the keyword.
Counts(fetched) ==
    LET r == Classify(products, products, <<>>, fetched, 1) IN
    [new_products |-> Len(r[2]), updated_products |-> Len(fetched) - Len(r[2])]

\* Product.insert_many(products_to_insert) and the saves of
\* products_to_update.
Stored(fetched) ==
    LET r == Classify(products, products, <<>>, fetched, 1) IN r[1] \o r[2]

\* What has been observed of each id after the list: the category of its
\* first observation, the price of its latest.
RECURSIVE Observe(_, _, _)
Observe(s, fetched, i) ==
    IF i > Len(fetched) THEN s
    ELSE LET o == fetched[i] IN
         Observe([s EXCEPT ![o.product_id] =
                     IF s[o.product_id].observed
                     THEN [s[o.product_id] EXCEPT !.lprice = o.lprice]
                     ELSE [observed |-> TRUE, lprice |-> o.lprice, category |-> o.category]],
                 fetched, i + 1)

StoreProducts(fetched) ==
    /\ Len(products) + Len(fetched) <= MaxStored
    /\ products' = Stored(fetched)
    /\ seen' = Observe(seen, fetched, 1)
    /\ counted' = Counts(fetched)
    /\ UNCHANGED <<vars, response, published, active_connections, sock, bcast,
                   product_type, classified, search, collect, fetch, request>>

NextProducts ==
    \E fetched \in FetchedLists : StoreProducts(fetched)

SpecProducts == Init /\ [][NextProducts]_allvars

\* ------------------------------------------------- product-type codes
\* The value Python's None stands for in the tuple _parse_product_type
\* returns.
Absent == "None"

\* return (None, None, False, False, False)
Unclassified ==
    [product_group |-> Absent, product_category_type |-> Absent,
     is_used |-> FALSE, is_discontinued |-> FALSE, is_presale |-> FALSE]

\* product_type % 3 of a code of 1..12: 1 price-compared product, 2 price
\* comparison without a match, otherwise matched to a price comparison.
\* The ranges are read as 1..4 and 5..8, the rest as pre-sale.
ParseShiftedRanges(code) ==
    IF ~code.present \/ code.value = 0 \/ code.value < 1 \/ code.value > 12
    THEN Unclassified
    ELSE LET n == code.value
             remainder == n % 3
         IN [product_group |->
                 IF 1 <= n /\ n <= 4 THEN "general"
                 ELSE IF 5 <= n /\ n <= 8 THEN "used"
                 ELSE IF 9 <= n /\ n <= 10 THEN "discontinued"
                 ELSE "presale",
             product_category_type |->
                 IF remainder = 1 THEN "price_compared"
                 ELSE IF remainder = 2 THEN "unmatched"
                 ELSE "matched",
             is_used |-> 5 <= n /\ n <= 8,
             is_discontinued |-> 9 <= n /\ n <= 10,
             is_presale |-> ~(1 <= n /\ n <= 10)]

\* _parse_product_type(product_type).  `not product_type` is true of None
\* and of 0.  The if/elif chain of the ranges sets the group and its flag,
\* the last branch (else) being the pre-sale group; the remainder of the
\* division by 3 sets the kind, the last branch (else) being "matched".
parse_product_type(code) ==
    IF ~code.present \/ code.value = 0 \/ code.value < 1 \/ code.value > 12
    THEN Unclassified
    ELSE LET n == code.value
             remainder == n % 3
         IN [product_group |->
                 IF 1 <= n /\ n <= 3 THEN "general"
                 ELSE IF 4 <= n /\ n <= 6 THEN "used"
                 ELSE IF 7 <= n /\ n <= 9 THEN "discontinued"
                 ELSE "presale",
             product_category_type |->
                 IF remainder = 1 THEN "price_compared"
                 ELSE IF remainder = 2 THEN "unmatched"
                 ELSE "matched",
             is_used |-> 4 <= n /\ n <= 6,
             is_discontinued |-> 7 <= n /\ n <= 9,
             is_presale |-> ~(1 <= n /\ n <= 9)]

\* _convert_to_product calls _parse_product_type with the productType of
\* the item: None when the item has none (or a falsy one), else its int.
ParseProductType(code) ==
    /\ product_type' = code
    /\ classified' = parse_product_type(code)
    /\ UNCHANGED <<vars, response, published, active_connections, sock, bcast,
                   products, seen, counted, search, collect, fetch, request>>

NextType ==
    \E code \in Codes : ParseProductType(code)

SpecType == Init /\ [][NextType]_allvars

\* ------------------------------------------------------ search client
\* One call of _collect_keyword(batch, keyword) with the search client of
\* naver_api.py under it: search_and_collect fetches page after page with
\* search_products, which tenacity retries on httpx.RequestError and
\* httpx.HTTPStatusError up to MaxAttempts attempts and then re-raises.

\* The variables the search leaves alone.
outside ==
    <<vars, response, published, active_connections, sock, bcast, products, seen,
      product_type, classified, counted, collect, fetch, request>>

\* keyword.status = "running"; keyword.save(); search_and_collect starts
\* with products = [] and the first page.
SearchBegin(k) ==
    /\ search.pc \in {"idle", "done"}
    /\ search' = [NoSearch EXCEPT !.pc = "fetching", !.query = k, !.page = 1,
                                  !.attempt = 1, !.task = "running"]
    /\ UNCHANGED outside

\* search_products returns a page of n items: none ends the loop (break);
\* the items are converted and appended; a short page, or the last page of
\* the range, ends the loop too; else the next page is fetched.
FetchOk(n) ==
    /\ search.pc = "fetching"
    /\ search' = IF n = 0
                 THEN [search EXCEPT !.pc = "returned"]
                 ELSE IF n < MaxDisplay \/ search.page = MaxPages
                 THEN [search EXCEPT !.pc = "returned", !.collected = @ + n]
                 ELSE [search EXCEPT !.collected = @ + n, !.page = @ + 1, !.attempt = 1]
    /\ UNCHANGED outside

\* client.get or raise_for_status raises: tenacity waits and calls again
\* while attempts are left; after the last attempt the exception is
\* re-raised into search_and_collect, whose except Exception logs it and
\* leaves the loop (break): the products collected so far are returned.
FetchFails ==
    /\ search.pc = "fetching"
    /\ search' = IF search.attempt < MaxAttempts
                 THEN [search EXCEPT !.attempt = @ + 1]
                 ELSE [search EXCEPT !.pc = "returned", !.exhausted = TRUE]
    /\ UNCHANGED outside

\* asyncio.wait_for cancels the call after 600 s: except
\* asyncio.TimeoutError marks the keyword failed and returns failed.
FetchTimeout ==
    /\ search.pc = "fetching"
    /\ search' = [search EXCEPT !.pc = "done", !.task = "failed", !.result = "failed"]
    /\ UNCHANGED outside

\* search_and_collect has returned: if not products the keyword is stored
\* completed and success is returned; else the products are stored, the
\* search history entry is inserted, the keyword is stored completed and
\* success is returned.  The caller counts a success as completed.
SearchReturned ==
    /\ search.pc = "returned"
    /\ search' = IF search.collected = 0
                 THEN [search EXCEPT !.pc = "done", !.task = "completed", !.result = "success"]
                 ELSE [search EXCEPT !.pc = "done", !.task = "completed", !.result = "success",
                                     !.ledger = TRUE]
    /\ UNCHANGED outside

NextSearch ==
    \/ \E k \in Keywords : SearchBegin(k)
    \/ \E n \in 0..MaxDisplay : FetchOk(n)
    \/ FetchFails
    \/ FetchTimeout
    \/ SearchReturned

SpecSearch == Init /\ [][NextSearch]_allvars

\* ------------------------------------------------- search_and_collect
\* search_and_collect(query, max_results): the pages of the search are
\* requested one after the other with search_products.  A full page holds
\* cap items (settings.MAX_DISPLAY).

\* The variables search_and_collect leaves alone.
apart ==
    <<vars, response, published, active_connections, sock, bcast, products, seen,
      product_type, classified, counted, search, fetch, request>>

Min(a, b) == IF a < b THEN a ELSE b
Max(a, b) == IF a > b THEN a ELSE b

\* display = min(max_results, settings.MAX_DISPLAY)
PageSize(max_results, cap) == Min(max_results, cap)

\* The request for a page always asking for a full page.
CurrentDisplayFull(display, max_results, start) ==
    display

\* current_display = min(display, max_results - start + 1)
CurrentDisplay(display, max_results, start) ==
    Min(display, max_results - start + 1)

\* for start in range(1, max_results + 1, display): start is in the range
InRange(start, max_results) == start < max_results + 1

\* A page that has been requested and not answered yet.
Page(start, display) ==
    [start |-> start, display |-> display, answered |-> FALSE, items |-> <<>>]

\* The answers to a request for n items: up to n + 1 raw items, each of
\* which _convert_to_product converts (TRUE) or raises for (FALSE).
Answers(n) == UNION {[1..k -> BOOLEAN] : k \in 0..(n + 1)}

\* The ranks of the items converted one after the other, the count going
\* over the converted items only.
RanksRenumbered(items, start) ==
    LET ok == SelectSeq([i \in 1..Len(items) |-> IF items[i] THEN i ELSE 0],
                        LAMBDA r : r # 0)
    IN [i \in 1..Len(ok) |-> start + i - 1]

\* for idx, item in enumerate(items): rank = start + idx; the product is
\* appended; an item whose conversion raises is logged and left out
\* (continue).
Ranks(items, start) ==
    SelectSeq([i \in 1..Len(items) |-> IF items[i] THEN start + i - 1 ELSE 0],
              LAMBDA r : r # 0)

\* The checks of the arguments, products = [], display, and the first
\* iteration of the loop up to await self.search_products(...).
CollectBegin(m) ==
    /\ collect.pc \in {"idle", "done"}
    /\ collect' =
          IF m < 1
          THEN [NoCollect EXCEPT !.pc = "done", !.max_results = m, !.stop = "value_error"]
          ELSE LET display == PageSize(m, MaxDisplay)
                   current == CurrentDisplay(display, m, 1)
               IN [NoCollect EXCEPT !.pc = "fetching", !.max_results = m,
                                    !.display = display, !.start = 1,
                                    !.current_display = current,
                                    !.pages = <<Page(1, current)>>]
    /\ UNCHANGED apart

\* search_products returns the page: no items ends the loop; the items
\* are converted; fewer items than asked for ends the loop; else the next
\* start of the range is taken, and the loop ends when the range is
\* exhausted.
PageReturned(items) ==
    /\ collect.pc = "fetching"
    /\ Len(items) <= collect.current_display + 1
    /\ LET n == Len(collect.pages)
           pages == [collect.pages EXCEPT ![n].answered = TRUE, ![n].items = items]
           start == collect.start + collect.display
           current == CurrentDisplay(collect.display, collect.max_results, start)
           got == collect.products \o Ranks(items, collect.start)
       IN collect' =
             IF Len(items) = 0
             THEN [collect EXCEPT !.pc = "done", !.pages = pages, !.stop = "no_items"]
             ELSE IF Len(items) < collect.current_display
             THEN [collect EXCEPT !.pc = "done", !.pages = pages, !.products = got,
                                  !.stop = "last_page"]
             ELSE IF ~InRange(start, collect.max_results)
             THEN [collect EXCEPT !.pc = "done", !.pages = pages, !.products = got,
                                  !.stop = "max_results"]
             ELSE [collect EXCEPT !.pages = Append(pages, Page(start, current)),
                                  !.products = got, !.start = start,
                                  !.current_display = current]
    /\ UNCHANGED apart

\* search_products raises (its retries are exhausted, or the error is not
\* retried): except Exception logs it and leaves the loop.
PageRaises ==
    /\ collect.pc = "fetching"
    /\ collect' = [collect EXCEPT !.pc = "done", !.stop = "error"]
    /\ UNCHANGED apart

NextCollect ==
    \/ \E m \in 0..MaxResults : CollectBegin(m)
    \/ \E items \in Answers(MaxDisplay) : PageReturned(items)
    \/ PageRaises

SpecCollect == Init /\ [][NextCollect]_allvars

\* ---------------------------------------------------- search_products
\* search_products with the retry decorator of tenacity around it: an
\* attempt is one execution of the body of the function.

\* The variables search_products leaves alone.
aside ==
    <<vars, response, published, active_connections, sock, bcast, products, seen,
      product_type, classified, counted, search, collect, request>>

\* raise_for_status raises httpx.HTTPStatusError for these answers.
StatusErrors == {"http_400", "http_401", "http_429", "http_500"}

\* The exceptions an attempt ends with: the ValueError of a blank query,
\* httpx.HTTPStatusError, httpx.RequestError, and any other exception.
Errors == StatusErrors \cup {"value_error", "request_error", "other"}

\* retry=retry_if_exception_type((httpx.RequestError, httpx.HTTPStatusError))
Retried(e) == e \in StatusErrors \cup {"request_error"}

\* A stop condition that lets a fourth attempt be made.
StopAfterFour(attempts) ==
    Len(attempts) >= MaxAttempts + 1

\* stop=stop_after_attempt(3)
StopAfterAttempt(attempts) ==
    Len(attempts) >= MaxAttempts

\* The call of search_products: the first attempt begins.
SearchProductsBegin ==
    /\ fetch.pc \in {"idle", "returned", "raised"}
    /\ fetch' = [NoFetch EXCEPT !.pc = "attempting"]
    /\ UNCHANGED aside

\* client.get answers, raise_for_status passes: return response.json()
AttemptReturns ==
    /\ fetch.pc = "attempting"
    /\ fetch' = [fetch EXCEPT !.pc = "returned", !.attempts = Append(@, "ok")]
    /\ UNCHANGED aside

\* The attempt raises e (every except clause of the body logs and raises
\* again).  The decorator makes another attempt when e is of a retried
\* type and the stop condition does not hold; else e is raised to the
\* caller (reraise=True).
AttemptRaises(e) ==
    /\ fetch.pc = "attempting"
    /\ LET attempts == Append(fetch.attempts, e)
       IN fetch' =
             IF Retried(e) /\ ~StopAfterAttempt(attempts)
             THEN [fetch EXCEPT !.attempts = attempts]
             ELSE [fetch EXCEPT !.pc = "raised", !.attempts = attempts, !.error = e]
    /\ UNCHANGED aside

NextFetch ==
    \/ SearchProductsBegin
    \/ AttemptReturns
    \/ \E e \in Errors : AttemptRaises(e)

SpecFetch == Init /\ [][NextFetch]_allvars

\* ------------------------------------------- the parameters of a request
\* The display and start parameters search_products sends, for any
\* arguments, and for the pages the batch asks search_and_collect for.

MAX_DISPLAY == 100          \* settings.MAX_DISPLAY
MaxStart == 1000            \* the largest start search_products sends
BatchMaxResults == 1000     \* max_results of _collect_keyword

\* The variables the requests leave alone.
besides ==
    <<vars, response, published, active_connections, sock, bcast, products, seen,
      product_type, classified, counted, search, collect, fetch>>

\* Arguments of search_products below, at and above the limits.
DisplayArgs == {-5, -1, 0, 1, 2, 50, 99, 100, 101, 500, 1000}
StartArgs == {-5, -1, 0, 1, 2, 101, 901, 999, 1000, 1001, 5000}

\* display = max(1, min(display, settings.MAX_DISPLAY))
ClampDisplay(display) == Max(1, Min(display, MAX_DISPLAY))

\* A start parameter with no upper limit.
ClampStartNoCap(start) ==
    Max(1, start)

\* start = max(1, min(start, 1000))
ClampStart(start) ==
    Max(1, Min(start, MaxStart))

\* params = {"query": ..., "display": display, "start": start, "sort": sort}
Params(display, start) ==
    [display |-> ClampDisplay(display), start |-> ClampStart(start)]

\* search_products(query, display, start) called by any caller.
SearchProducts(display, start) ==
    /\ request' = [NoRequest EXCEPT !.kind = "direct", !.display = display,
                                    !.start = start,
                                    !.params = Params(display, start)]
    /\ UNCHANGED besides

\* _collect_keyword calls search_and_collect(max_results=1000): the first
\* page is requested.
BatchFirstPage ==
    /\ request.kind # "batch"
    /\ LET display == PageSize(BatchMaxResults, MAX_DISPLAY)
           current == CurrentDisplay(display, BatchMaxResults, 1)
       IN request' = [NoRequest EXCEPT !.kind = "batch", !.display = current,
                                       !.start = 1, !.offsets = <<1>>,
                                       !.params = Params(current, 1)]
    /\ UNCHANGED besides

\* The page was full: the next start of the range is requested.
BatchNextPage ==
    /\ request.kind = "batch"
    /\ LET display == PageSize(BatchMaxResults, MAX_DISPLAY)
           start == request.start + display
           current == CurrentDisplay(display, BatchMaxResults, start)
       IN /\ InRange(start, BatchMaxResults)
          /\ request' = [request EXCEPT !.display = current, !.start = start,
                                        !.offsets = Append(@, start),
                                        !.params = Params(current, start)]
    /\ UNCHANGED besides

\* The loop over the pages ends: no items, a page that is not full, an
\* exception, or the end of the range.
BatchPagesEnd ==
    /\ request.kind = "batch"
    /\ request' = [request EXCEPT !.kind = "ended"]
    /\ UNCHANGED besides

NextRequest ==
    \/ \E display \in DisplayArgs : \E start \in StartArgs : SearchProducts(display, start)
    \/ BatchFirstPage
    \/ BatchNextPage
    \/ BatchPagesEnd

SpecRequest == Init /\ [][NextRequest]_allvars

\* ---------------------------------------------------------------- claims

\* C1: at most one invocation of start_batch_collection is past the
\* check-and-set of is_running at any time, is_running and
\* current_batch_id describe it, and a start made while a run is active is
\* rejected as busy and names the batch of the active run.
C1_OneRun ==
    /\ Cardinality({p \in Procs : InRun(p)}) <= 1
    /\ \A p \in Procs : InRun(p) => is_running /\ current_batch_id = run[p].batch_id

C1_BusyNamesActive ==
    \A p \in Procs :
        (run[p].pc = "start" /\ run'[p].pc # "start" /\ \E q \in Procs : InRun(q))
            => /\ run'[p].pc = "done"
               /\ run'[p].outcome = "busy"
               /\ \E q \in Procs : InRun(q) /\ run'[p].named = run[q].batch_id
               /\ \A q \in Procs : InRun(q) => run'[q] = run[q]

C1_RunExclusive == []C1_OneRun /\ [][C1_BusyNamesActive]_vars

\* A start was rejected as busy while the run it names is executing.
C1_Witness ==
    \E p, q \in Procs :
        /\ run[p].outcome = "busy"
        /\ InRun(q)
        /\ run[p].named = run[q].batch_id

StepOf(p) == run'[p] # run[p]

\* The statuses the design calls terminal.
Terminal == {"completed", "failed", "cancelled"}

\* C3: completed, failed and cancelled are terminal: once the stored
\* status of a batch is one of them, no step of the run loop and no control
\* operation stores a different status for that batch.
C3_TerminalKept ==
    [][\A b \in JobIds :
          (jobs[b].exists /\ jobs[b].status \in Terminal /\ jobs'[b].exists)
              => jobs'[b].status = jobs[b].status]_vars

\* Positions of the run loop after the start of the run has been stored.
LoopPcs ==
    {"list_keywords", "loop_top", "check_duplicate", "skip_save_keyword",
     "skip_save_batch", "collect_start", "collecting", "keyword_complete",
     "count", "handler_save_batch", "rate_limit", "complete"}

\* C4: once paused (or cancelled) is stored for a batch whose run loop is
\* executing, no step of that run loop stores another status for it: the
\* loop's own saves of the batch document leave paused (cancelled) in
\* place and the loop does not mark the batch completed.
C4_PauseCancelKept ==
    [][\A p \in Procs :
          (/\ run[p].pc \in LoopPcs
           /\ StepOf(p)
           /\ jobs[run[p].batch_id].exists
           /\ jobs[run[p].batch_id].status \in {"paused", "cancelled"})
              => /\ jobs'[run[p].batch_id].exists
                 /\ jobs'[run[p].batch_id].status = jobs[run[p].batch_id].status]_vars

\* C5: completed_keywords + failed_keywords + skipped_keywords never
\* exceeds total_keywords, in any stored state of a batch.
C5_CountersBounded ==
    \A b \in JobIds :
        jobs[b].exists =>
            jobs[b].completed_keywords + jobs[b].failed_keywords
                + jobs[b].skipped_keywords <= jobs[b].total_keywords

\* C6: the stored cursor of a batch never decreases, whichever step
\* writes the batch document.
C6_CursorMonotone ==
    [][\A b \in JobIds :
          (jobs[b].exists /\ jobs'[b].exists)
              => jobs'[b].current_keyword_index >= jobs[b].current_keyword_index]_vars

\* C7: a keyword that has a history entry when the loop checks it is not
\* collected: its task is stored skipped with previously_collected, the
\* skipped counter the loop read is stored incremented by one, the stored
\* cursor is past the cursor the loop read, and the loop goes on to the
\* next task with no external call.
C7_DuplicateSkipped ==
    [][\A p \in Procs : StepOf(p) =>
          /\ (run[p].pc = "check_duplicate" /\ CurKeyword(p).keyword \in history)
                => run'[p].pc = "skip_save_keyword"
          /\ run[p].pc = "skip_save_keyword"
                => /\ tasks'[run[p].batch_id][CurKeyword(p).order + 1].exists
                   /\ tasks'[run[p].batch_id][CurKeyword(p).order + 1].status = "skipped"
                   /\ tasks'[run[p].batch_id][CurKeyword(p).order + 1].previously_collected
                   /\ run'[p].pc = "skip_save_batch"
          /\ run[p].pc = "skip_save_batch"
                => /\ jobs'[run[p].batch_id].skipped_keywords = run[p].batch.skipped_keywords + 1
                   /\ jobs'[run[p].batch_id].current_keyword_index > run[p].batch.current_keyword_index
                   /\ run'[p].pc \in {"loop_top", "complete"}]_vars

\* The keywords of the tasks of batch b, in order.
KeywordsOf(b) == [i \in DOMAIN tasks[b] |-> tasks[b][i].keyword]

\* Every history entry was written by a completed task of batch b: nothing
\* was in the ledger before b ran.
NoEarlierHistory(b) ==
    \A k \in history :
        \E i \in DOMAIN tasks[b] : tasks[b][i].keyword = k /\ tasks[b][i].status = "completed"

\* C8: the batch uploaded from alpha, alpha, beta with no earlier history,
\* run undisturbed with every call succeeding, ends completed with
\* completed = 2, skipped = 1, failed = 0, task 0 and task 2 collected and
\* task 1 skipped as previously collected.
C8_EndToEnd ==
    \A p \in Procs :
        LET b == run[p].batch_id IN
        (/\ run[p].pc = "done"
         /\ run[p].outcome # "busy"
         /\ KeywordsOf(b) = <<"alpha", "alpha", "beta">>
         /\ NoEarlierHistory(b))
            => /\ jobs[b].status = "completed"
               /\ jobs[b].completed_keywords = 2
               /\ jobs[b].skipped_keywords = 1
               /\ jobs[b].failed_keywords = 0
               /\ [i \in 1..3 |-> tasks[b][i].order] = <<0, 1, 2>>
               /\ [i \in 1..3 |-> tasks[b][i].status] = <<"completed", "skipped", "completed">>
               /\ tasks[b][2].previously_collected

\* C9: a failure while one keyword is processed stores its task failed
\* with a message and the failed counter the loop read incremented by one,
\* and the loop goes on (to the next selected task, or to the end of the
\* run after the last one); the run is not aborted.
C9_FailureIsolated ==
    [][\A p \in Procs :
          (StepOf(p) /\ run[p].result = "failed") =>
              /\ run[p].pc \in {"count", "handler_save_batch"}
                    => /\ CurKeyword(p).status = "failed"
                       /\ CurKeyword(p).error_message # "none"
                       /\ jobs'[run[p].batch_id].failed_keywords = run[p].batch.failed_keywords + 1
                       /\ run'[p].pc = "rate_limit"
              /\ run[p].pc = "rate_limit"
                    => run'[p].pc \in {"loop_top", "complete"}]_vars

AcceptedFrom(o) ==
    CASE o = "pause" -> {"running"}
      [] o = "resume" -> {"paused"}
      [] o = "cancel" -> {"running", "paused", "pending"}
      [] OTHER -> {}

C12_DeleteOnlyTerminal ==
    [][\A b \in JobIds :
          (/\ jobs[b].exists
           /\ \/ ~jobs'[b].exists
              \/ \E i \in DOMAIN tasks[b] : tasks[b][i].exists /\ ~tasks'[b][i].exists)
              => /\ jobs[b].status \in Terminal
                 /\ \A p \in Procs : InRun(p) => run[p].batch_id # b]_allvars

\* C13: an accepted resume is not dropped: a start of a job whose stored
\* status is paused (only resume queues one) gets past the check-and-set
\* of the run flag and runs the loop; it is not rejected as busy, also
\* when the previous run loop of the job has not yet released the flag.
C13_ResumeNotDropped ==
    [][\A p \in Procs :
          (/\ run[p].pc = "start"
           /\ run'[p].pc # "start"
           /\ jobs[run[p].batch_id].exists
           /\ jobs[run[p].batch_id].status = "paused")
              => /\ run'[p].pc = "load"
                 /\ run'[p].outcome # "busy"]_allvars

\* A job is stored running and no invocation of its run loop is executing.
LeftRunning(b) ==
    /\ jobs[b].exists
    /\ jobs[b].status = "running"
    /\ \A p \in Procs : InRun(p) => run[p].batch_id # b

\* C14: when an exception leaves the run loop, the run is aborted (no
\* further keyword is processed), the job, if the handler finds it, is
\* stored failed with completed_at set, the run flag is released when the
\* invocation ends, and no job is stored running while no run loop of it
\* is executing.
C14_NoneLeftRunning ==
    \A b \in JobIds : ~LeftRunning(b)

\* Positions of the handling of an exception that left the run loop.
AbortPcs == {"except_find", "except_save", "finally"}

\* C14, amended: when an exception leaves the run loop the run is
\* aborted: the invocation goes through the handler and the release only;
\* the job, if the handler finds it and its save succeeds, is stored
\* failed with completed_at set; the run flag is released when the
\* invocation ends; and a job is stored running with no run loop of it
\* executing only after a run of it whose handler could not store the
\* failure (which is logged, the first exception being re-raised).
C14_AbortStoresFailed ==
    /\ [](\A b \in JobIds :
            LeftRunning(b) =>
                \E p \in Procs : /\ run[p].pc = "done"
                                  /\ run[p].batch_id = b
                                  /\ run[p].save_error)
    /\ [][\A p \in Procs :
            (StepOf(p) /\ run[p].pc \in AbortPcs /\ run[p].outcome # "returned") =>
                LET b == run[p].batch_id IN
                /\ run'[p].pc \in (AbortPcs \cup {"done"}) \ {"except_find"}
                /\ (run[p].pc = "except_find" /\ jobs[b].exists /\ ~run'[p].save_error)
                      => /\ run'[p].pc = "except_save"
                         /\ run'[p].batch.status = "failed"
                /\ (run[p].pc = "except_save" /\ ~run'[p].save_error)
                      => /\ jobs'[b].exists
                         /\ jobs'[b].status = "failed"
                         /\ jobs'[b].completed_at
                /\ run'[p].pc = "done"
                      => /\ ~is_running'
                         /\ current_batch_id' = NoBatch
                         /\ run'[p].outcome = "raised"]_allvars

\* A run was aborted by an exception, its handler stored the job failed
\* and the flag has been released.
C14_Witness ==
    \E p \in Procs :
        /\ run[p].pc = "done"
        /\ run[p].outcome = "raised"
        /\ ~run[p].save_error
        /\ jobs[run[p].batch_id].exists
        /\ jobs[run[p].batch_id].status = "failed"
        /\ jobs[run[p].batch_id].completed_at
        /\ ~is_running

\* Nothing of batch b is in progress: no invocation of its run loop is
\* queued or executing and no control request is in flight.
Quiet(b) ==
    /\ \A p \in Procs : run[p].batch_id = b => run[p].pc = "done"
    /\ \A h \in Handlers : ctl[h].op = "idle"

\* C15: every mutation of the status of a job is followed by a publish
\* whose snapshot carries the status and the counters the mutation left:
\* when nothing of the job is in progress any more, the last snapshot
\* published for it is the snapshot of the stored document; in particular
\* a pause or cancel accepted by the control surface has been published.
C15_MutationsPublished ==
    \A b \in JobIds :
        (jobs[b].exists /\ jobs[b].status # "pending" /\ Quiet(b))
            => published[b] = Snapshot(jobs[b])

\* C16: broadcast never raises to its caller, whatever connect and
\* disconnect do while its sends are awaited and whichever sends fail.
C16_BroadcastReturns ==
    \A c \in Calls : bcast[c].outcome # "raised"

\* C17: at every await point no batch id of active_connections maps to an
\* empty set of subscribers.
C17_NoEmptySet ==
    \A b \in DOMAIN active_connections : active_connections[b] # {}

\* Every subscriber a broadcast began with failed its send, was evicted by
\* the broadcast, and the batch id is gone from the mapping.
C17_Witness ==
    \E c \in Calls :
        /\ bcast[c].pc = "done"
        /\ bcast[c].outcome = "returned"
        /\ bcast[c].began # {}
        /\ bcast[c].disconnected = bcast[c].began
        /\ bcast[c].batch_id \notin DOMAIN active_connections

\* C18: one call of broadcast tries each subscriber at most once and only
\* subscribers that were registered for the batch id when the call began.
C18_AtMostOnce ==
    \A c \in Calls : \A w \in Sockets :
        /\ bcast[c].tried[w] <= 1
        /\ bcast[c].tried[w] >= 1 => w \in bcast[c].began

\* A call has ended having tried a subscriber it began with, and a
\* subscriber that connected for the same batch id during the call was
\* not tried.
C18_Witness ==
    \E c \in Calls : \E v, w \in Sockets :
        /\ bcast[c].pc = "done"
        /\ v \in bcast[c].began
        /\ bcast[c].tried[v] = 1
        /\ w \notin bcast[c].began
        /\ sock[w].state = "open"
        /\ sock[w].batch_id = bcast[c].batch_id
        /\ bcast[c].tried[w] = 0

\* The records the store holds for a product id.
RecordsOf(id) == {i \in DOMAIN products : products[i].product_id = id}

\* C19: after any sequence of keyword collections the store holds exactly
\* one record for every product id observed and none for any other; the
\* record carries the price of the latest observation of the id and the
\* category of the first.
C19_OneRecordPerId ==
    \A id \in ProductIds :
        IF seen[id].observed
        THEN /\ Cardinality(RecordsOf(id)) = 1
             /\ \A i \in RecordsOf(id) :
                    /\ products[i].lprice = seen[id].lprice
                    /\ products[i].category = seen[id].category
        ELSE RecordsOf(id) = {}

\* The four groups in the order of their code ranges, and the three kinds
\* by the remainder of the code divided by 3.
GroupOfRange == <<"general", "used", "discontinued", "presale">>
KindOfRemainder == [r \in 0..2 |-> IF r = 1 THEN "price_compared"
                                   ELSE IF r = 2 THEN "unmatched" ELSE "matched"]

\* C20: for a code c of 1..12 _parse_product_type returns the group of the
\* range c lies in (1-3, 4-6, 7-9, 10-12), the kind given by c mod 3, and
\* the three flags with exactly the flag of that group set (none for the
\* general group); for any other code, or none, it returns an absent group,
\* an absent kind and all flags false.
C20_TypeTable ==
    classified # NotParsed =>
        IF product_type.present /\ product_type.value \in 1..12
        THEN LET c == product_type.value
                 range == ((c - 1) \div 3) + 1
             IN /\ classified.product_group = GroupOfRange[range]
                /\ classified.product_category_type = KindOfRemainder[c % 3]
                /\ classified.is_used = (range = 2)
                /\ classified.is_discontinued = (range = 3)
                /\ classified.is_presale = (range = 4)
        ELSE /\ classified.product_group = Absent
             /\ classified.product_category_type = Absent
             /\ ~classified.is_used
             /\ ~classified.is_discontinued
             /\ ~classified.is_presale

\* Code 9 has been classified: the last code of the discontinued range,
\* the remainder 0.
C20_Witness ==
    /\ product_type = Code(9)
    /\ classified # NotParsed
    /\ classified.is_discontinued
    /\ classified.product_category_type = "matched"

\* C21: when a page fetch still fails after the retries of the search
\* client are exhausted, the failure reaches the orchestrator: the task of
\* the keyword ends failed and is counted failed, not completed.
C21_ExhaustedSurfaced ==
    (search.pc = "done" /\ search.exhausted)
        => /\ search.task = "failed"
           /\ search.result = "failed"

\* C22: every task stored completed has a search-history entry of its
\* keyword, whatever the number of items its call returned, so that a
\* later task with the same keyword is skipped.
C22_CompletedHasLedger ==
    \A b \in JobIds : \A i \in DOMAIN tasks[b] :
        (tasks[b][i].exists /\ tasks[b][i].status = "completed")
            => IsDuplicate(tasks[b][i].keyword)

\* C23: with no pause, cancel or delete, an accepted run that has ended
\* has processed every task it selected and left the job stored completed
\* with completed_at set, whatever the length of the list and the mix of
\* skipped, successful and failed keywords.
C23_RunCompletes ==
    \A p \in Procs :
        (run[p].pc = "done" /\ run[p].outcome # "busy") =>
            LET b == run[p].batch_id IN
            /\ jobs[b].exists
            /\ jobs[b].status = "completed"
            /\ jobs[b].completed_at
            /\ \A i \in DOMAIN tasks[b] :
                   tasks[b][i].status \in {"completed", "skipped", "failed"}

\* C24: after a processed task that is not the last selected one the run
\* loop reads the delay of the job document and goes on to the next task
\* (or returns, when the wait finds the job paused or cancelled); the read
\* does not fail and the run is not aborted.
C24_DelayRead ==
    [][\A p \in Procs :
          (/\ StepOf(p)
           /\ run[p].pc = "rate_limit"
           /\ run[p].idx < Len(run[p].keywords) - 1)
              => /\ run'[p].pc \in {"loop_top", "finally"}
                 /\ run'[p].outcome # "raised"]_allvars

\* The task invocation p is processing ended by the timeout of its call.
TimedOut(p) ==
    /\ run[p].result = "failed"
    /\ CurKeyword(p).error_message = "timeout"

\* C27: when the external call of a task runs into the per-task timeout,
\* the task is stored failed, no product record is inserted or updated and
\* no search-history entry is written for the call, the failure is
\* counted, and the run loop proceeds to the next task (or to the end of
\* the run after the last one).
C27_TimeoutIsolated ==
    [][\A p \in Procs : StepOf(p) =>
          /\ (run[p].pc = "collecting" /\ run'[p].result = "failed"
                  /\ run'[p].keywords[run[p].idx + 1].error_message = "timeout")
                => /\ tasks'[run[p].batch_id][CurKeyword(p).order + 1].status = "failed"
                   /\ history' = history
                   /\ products' = products
                   /\ run'[p].pc = "count"
          /\ (run[p].pc = "count" /\ TimedOut(p))
                => run'[p].pc = "rate_limit"
          /\ (run[p].pc = "rate_limit" /\ TimedOut(p))
                => run'[p].pc \in {"loop_top", "complete", "finally"}]_allvars

\* The statuses of a task the design calls terminal.
TerminalTask == {"completed", "skipped"}

\* C25: a task stored completed or skipped is never modified again by a
\* run: a run selects only tasks whose status is pending or failed, and no
\* step of a run changes any field of a task stored completed or skipped,
\* across any sequence of start, pause and resume; only failed (or pending)
\* tasks are attempted.
C25_TerminalTasksKept ==
    [][\A p \in Procs : StepOf(p) =>
          /\ \A b \in JobIds : \A i \in DOMAIN tasks[b] :
                (tasks[b][i].exists /\ tasks[b][i].status \in TerminalTask)
                    => tasks'[b][i] = tasks[b][i]
          /\ run[p].pc = "list_keywords"
                => \A i \in DOMAIN run'[p].keywords :
                       run'[p].keywords[i].status \in {"pending", "failed"}]_allvars

\* A later run of a job is attempting a task that failed before, while a
\* task of the job is stored completed or skipped.
C25_Witness ==
    \E p \in Procs :
        LET b == run[p].batch_id IN
        /\ run[p].pc = "collecting"
        /\ jobs[b].exists
        /\ jobs[b].started_at \notin {0, p}
        /\ CurKeyword(p).error_message # "none"
        /\ \E i \in DOMAIN tasks[b] :
               tasks[b][i].exists /\ tasks[b][i].status \in TerminalTask

\* C26: started_at of a job is written only by the first run that finds
\* it unset: a run that finds it set (a run started by resume, or any later
\* start) takes status running and the started_at it found into its copy,
\* stores them, and no step of a run changes a stored started_at that is
\* set.
C26_StartedAtKept ==
    [][\A p \in Procs : StepOf(p) =>
          LET b == run[p].batch_id IN
          /\ (run[p].pc = "load" /\ jobs[b].exists /\ jobs[b].started_at # 0)
                => /\ run'[p].batch.status = "running"
                   /\ run'[p].batch.started_at = jobs[b].started_at
          /\ (run[p].pc = "load" /\ jobs[b].exists /\ jobs[b].started_at = 0)
                => run'[p].batch.started_at # 0
          /\ (run[p].pc = "save_running" /\ jobs[b].exists /\ jobs[b].started_at # 0)
                => /\ jobs'[b].status = "running"
                   /\ jobs'[b].started_at = jobs[b].started_at
          /\ \A c \in JobIds :
                (jobs[c].exists /\ jobs[c].started_at # 0 /\ jobs'[c].exists)
                    => jobs'[c].started_at = jobs[c].started_at]_allvars

\* A run started by resume has stored the job running with the started_at
\* the first run wrote.
C26_Witness ==
    \E p \in Procs :
        LET b == run[p].batch_id IN
        /\ run[p].pc = "list_keywords"
        /\ jobs[b].exists
        /\ jobs[b].status = "running"
        /\ jobs[b].started_at \notin {0, p}

\* The fetched products whose id has a record in the store.
Known(fetched) ==
    {j \in DOMAIN fetched : RecordsOf(fetched[j].product_id) # {}}

\* C28: storing a fetched product whose id is already in the store
\* changes nothing of the existing records but a price: every record keeps
\* its id and its category (and place), a price changes only to the price
\* of a fetched product of the same id, the record the lookup finds for a
\* fetched id carries a fetched price of that id afterwards, no record is
\* inserted for the id, and the product is counted updated, not new.
C28_OnlyPricesOverwritten ==
    [][products' # products \/ counted' # counted =>
          \E fetched \in FetchedLists :
              /\ seen' = Observe(seen, fetched, 1)
              /\ Len(products') = Len(products) + Cardinality(DOMAIN fetched \ Known(fetched))
              /\ counted'.updated_products = Cardinality(Known(fetched))
              /\ counted'.new_products = Cardinality(DOMAIN fetched \ Known(fetched))
              /\ \A i \in DOMAIN products :
                    /\ products'[i].product_id = products[i].product_id
                    /\ products'[i].category = products[i].category
                    /\ products'[i].lprice # products[i].lprice
                          => \E j \in DOMAIN fetched :
                                 /\ fetched[j].product_id = products[i].product_id
                                 /\ fetched[j].lprice = products'[i].lprice
              /\ \A j \in Known(fetched) :
                    /\ \A i \in DOMAIN products' \ DOMAIN products :
                           products'[i].product_id # fetched[j].product_id
                    /\ \E i \in RecordsOf(fetched[j].product_id) :
                           \E k \in DOMAIN fetched :
                               /\ fetched[k].product_id = fetched[j].product_id
                               /\ products'[i].lprice = fetched[k].lprice]_allvars

\* A product of a stored id was fetched with another price and another
\* category: the record has the new price and its first category, and the
\* product was counted updated.
C28_Witness ==
    /\ Len(products) = 1
    /\ counted = [new_products |-> 0, updated_products |-> 1]
    /\ seen[products[1].product_id].observed
    /\ products[1].lprice = 2
    /\ products[1].category = "c1"
    /\ seen[products[1].product_id].category = "c1"

\* The subscribers of batch id b after the step.
ConnectedNext(b) == IF b \in DOMAIN active_connections' THEN active_connections'[b] ELSE {}

\* C29: in one call of broadcast a send that fails removes exactly the
\* subscriber it failed for: a step of the call removes no subscriber but
\* those whose send failed in this call, and those only from the set of
\* the batch id of the call; when the call ends every subscriber of the
\* copy made when it began has had its attempt and no subscriber whose
\* send failed is registered.
C29_FailureIsolated ==
    [][\A c \in Calls : bcast'[c] # bcast[c] =>
          LET b == bcast'[c].batch_id IN
          /\ \A x \in BatchIds \ {b} : ConnectedNext(x) = Connected(x)
          /\ ConnectedNext(b) \subseteq Connected(b)
          /\ Connected(b) \ ConnectedNext(b) \subseteq bcast'[c].disconnected
          /\ bcast'[c].disconnected \subseteq
                 bcast[c].disconnected \cup {w \in Sockets : w = bcast[c].connection}
          /\ bcast'[c].pc = "done"
                => /\ \A w \in bcast'[c].began : bcast'[c].tried[w] = 1
                   /\ ConnectedNext(b) \cap bcast'[c].disconnected = {}]_allvars

\* A call has ended in which the send to one subscriber failed and the
\* send to another succeeded: the first is gone from the set of the batch
\* id, the second is still registered.
C29_Witness ==
    \E c \in Calls : \E v, w \in Sockets :
        /\ bcast[c].pc = "done"
        /\ {v, w} \subseteq bcast[c].began
        /\ v \in bcast[c].disconnected
        /\ w \notin bcast[c].disconnected
        /\ bcast[c].tried[v] = 1
        /\ bcast[c].tried[w] = 1
        /\ v \notin Connected(bcast[c].batch_id)
        /\ w \in Connected(bcast[c].batch_id)

\* C30: a publish never blocks for ever: every call of broadcast that is
\* awaiting a send ends, also when the send to a subscriber never
\* completes (that subscriber being evicted and the others served), so
\* that the run loop awaiting the publish goes on.
C30_PublishReturns ==
    \A c \in Calls : (bcast[c].pc = "sending") ~> (bcast[c].pc = "done")


\* The pages search_and_collect has got an answer for.
Answered == {i \in DOMAIN collect.pages : collect.pages[i].answered}

\* Some page held more items than the request asked for.
Overfull ==
    \E i \in Answered : Len(collect.pages[i].items) > collect.pages[i].display

\* The set of the ranks of the collected products.
RanksOf == {collect.products[j] : j \in DOMAIN collect.products}

\* C31: search_and_collect(keyword, maxResults) requests the pages at the
\* start offsets 1, 1 + pageSize, ... with pageSize = min(maxResults, cap)
\* and asks on each page for min(pageSize, items still missing); a page
\* is requested only when every page before it was answered with at least
\* the items asked for (and at least one) and maxResults was not reached;
\* when no page held more items than asked for, the result has at most
\* maxResults records and their ranks, each the start of its page plus
\* the index in the page, increase strictly.
C31_PagesAndStops ==
    (collect.pc # "idle" /\ collect.max_results >= 1) =>
        LET m == collect.max_results
            pageSize == IF m < MaxDisplay THEN m ELSE MaxDisplay
            pages == collect.pages
            got == collect.products
        IN /\ \A i \in DOMAIN pages :
                 LET missing == m - (pages[i].start - 1)
                 IN /\ pages[i].start = 1 + (i - 1) * pageSize
                    /\ pages[i].display = IF pageSize < missing THEN pageSize ELSE missing
                    /\ i < Len(pages) =>
                          /\ pages[i].answered
                          /\ Len(pages[i].items) > 0
                          /\ Len(pages[i].items) >= pages[i].display
                          /\ pages[i].start + pages[i].display - 1 < m
           /\ collect.pc = "done" =>
                 \/ collect.stop = "error"
                 \/ LET last == pages[Len(pages)]
                    IN /\ last.answered
                       /\ \/ Len(last.items) = 0
                          \/ Len(last.items) < last.display
                          \/ last.start + pageSize > m
           /\ ~Overfull =>
                 /\ Len(got) <= m
                 /\ \A j \in DOMAIN got : j > 1 => got[j - 1] < got[j]
                 /\ \A j \in DOMAIN got :
                       \E i \in Answered : \E idx \in DOMAIN pages[i].items :
                          pages[i].items[idx] /\ got[j] = pages[i].start + idx - 1

\* A collection of five results has ended after its third page, the last
\* one asking for the one item still missing.
C31_Witness ==
    /\ collect.pc = "done"
    /\ collect.stop = "max_results"
    /\ collect.max_results = MaxResults
    /\ Len(collect.pages) = 3
    /\ collect.pages[3].display = 1
    /\ Len(collect.products) = MaxResults

\* C34: when the conversion of a raw item fails, that item alone is left
\* out: every other item of every page is in the result with the rank
\* start + index it has in its page, and the next page is requested
\* according to the number of raw items of the page, converted or not.
C34_FailedItemLeftOut ==
    LET pages == collect.pages
    IN /\ \A i \in Answered : \A idx \in DOMAIN pages[i].items :
             pages[i].items[idx] => (pages[i].start + idx - 1) \in RanksOf
       /\ ~Overfull =>
             \A i \in Answered : \A idx \in DOMAIN pages[i].items :
                ~pages[i].items[idx] => (pages[i].start + idx - 1) \notin RanksOf
       /\ \A i \in Answered :
             (/\ Len(pages[i].items) >= pages[i].display
              /\ Len(pages[i].items) > 0
              /\ pages[i].start + collect.display <= collect.max_results)
             => Len(pages) > i

\* The first page held an item that could not be converted and one that
\* could, and the collection went on to the end.
C34_Witness ==
    /\ collect.pc = "done"
    /\ collect.stop = "max_results"
    /\ Len(collect.pages) = 3
    /\ collect.pages[1].items = <<FALSE, TRUE>>
    /\ collect.pages[2].items = <<TRUE, TRUE>>
    /\ collect.products = <<2, 3, 4, 5>>


\* C32: search_products makes at most three attempts; it returns the
\* first successful response; an attempt is made again only after a
\* failed one; after the third failure in a row the last error is raised.
C32_AtMostThreeAttempts ==
    LET attempts == fetch.attempts
        n == Len(attempts)
    IN /\ n <= 3
       /\ \A i \in 1..n : i < n => attempts[i] # "ok"
       /\ fetch.pc = "attempting" => \A i \in 1..n : attempts[i] # "ok"
       /\ fetch.pc = "returned" => n >= 1 /\ attempts[n] = "ok"
       /\ fetch.pc = "raised" => n >= 1 /\ attempts[n] # "ok" /\ fetch.error = attempts[n]
       /\ (n = 3 /\ attempts[3] # "ok") => fetch.pc = "raised" /\ fetch.error = attempts[3]

\* Three attempts failed, each with another error, and the last one was
\* raised.
C32_Witness ==
    /\ fetch.pc = "raised"
    /\ fetch.attempts = <<"request_error", "http_500", "http_429">>
    /\ fetch.error = "http_429"

\* C33: a client error that is not retryable (HTTP 400 or 401) is raised
\* at once: the attempt that got it is the last one, and when it is the
\* first answer exactly one attempt is made.
C33_ClientErrorNotRetried ==
    \A i \in DOMAIN fetch.attempts :
        fetch.attempts[i] \in {"http_400", "http_401"} =>
            /\ i = Len(fetch.attempts)
            /\ fetch.pc = "raised"
            /\ fetch.error = fetch.attempts[i]


\* C35: every request carries a result count in 1..100 and a start in
\* 1..1000, whatever display and start search_products was called with;
\* for the target of 1000 results of the batch the offsets requested for
\* a keyword are a prefix of 1, 101, ..., 901, at most ten requests, and
\* are sent as they are.
C35_ParamsInRange ==
    request.kind # "none" =>
        /\ request.params.display \in 1..100
        /\ request.params.start \in 1..1000
        /\ request.kind \in {"batch", "ended"} =>
              /\ Len(request.offsets) \in 1..10
              /\ \A i \in DOMAIN request.offsets : request.offsets[i] = 1 + 100 * (i - 1)
              /\ request.params.start = request.offsets[Len(request.offsets)]
              /\ request.params.display = 100

\* The tenth page of a keyword of the batch has been requested.
C35_Witness ==
    /\ request.kind = "batch"
    /\ Len(request.offsets) = 10
    /\ request.params = [display |-> 100, start |-> 901]


\* The stored keyword tasks whose status is running.
RunningTasks ==
    {t \in JobIds \X (1..MaxKeywords) :
        /\ t[2] \in DOMAIN tasks[t[1]]
        /\ tasks[t[1]][t[2]].exists
        /\ tasks[t[1]][t[2]].status = "running"}

\* The invocations waiting for search_and_collect to return.
InFlight == {p \in Procs : run[p].pc = "collecting"}

\* C36: at any time at most one keyword task, over all jobs, is stored with
\* status running, and at most one external collect call is in flight.
C36_OneRunning ==
    /\ Cardinality(RunningTasks) <= 1
    /\ Cardinality(InFlight) <= 1

\* A task is stored running and its collect call is in flight while a
\* second start has been made.
C36_Witness ==
    /\ Cardinality(RunningTasks) = 1
    /\ Cardinality(InFlight) = 1
    /\ \E q \in Procs : run[q].pc = "done"


\* The step rejects the start of invocation p as busy.
Rejects(p) == run[p].pc = "start" /\ run'[p].outcome = "busy"

\* C37: a start rejected as busy changes nothing: is_running stays true,
\* current_batch_id keeps naming the active job, the stored jobs with
\* their status and counters, the tasks and the executing run are left as
\* they are, and the rejected call never releases the flag: it has ended
\* and takes no further step, and the flag is cleared only by the end of
\* an accepted run.
C37_RejectedStartNoEffect ==
    [][/\ \A p \in Procs :
             Rejects(p) =>
                /\ is_running /\ is_running'
                /\ current_batch_id' = current_batch_id
                /\ \E q \in Procs : InRun(q) /\ current_batch_id = run[q].batch_id
                /\ jobs' = jobs
                /\ tasks' = tasks
                /\ run'[p].pc = "done"
                /\ \A q \in Procs : q # p => run'[q] = run[q]
       /\ \A p \in Procs : run[p].outcome = "busy" => run'[p] = run[p]
       /\ (is_running /\ ~is_running') =>
             \E q \in Procs :
                run[q].pc = "finally" /\ run[q].outcome # "busy" /\ run'[q].pc = "done"
      ]_vars

\* A start has been rejected while the external call of the active run is
\* in flight; the flag is set and names the job of that run.
C37_Witness ==
    \E p, q \in Procs :
        /\ run[p].pc = "done"
        /\ run[p].outcome = "busy"
        /\ run[q].pc = "collecting"
        /\ is_running
        /\ current_batch_id = run[q].batch_id
        /\ jobs[run[q].batch_id].exists
        /\ jobs[run[q].batch_id].status = "running"


\* current_keyword of broadcast_batch_status: the keyword of the task at
\* the cursor in the list of the tasks of the batch, or none.
current_keyword(b) ==
    LET keywords == FindKeywords(b)
    IN IF jobs[b].current_keyword_index < Len(keywords)
       THEN keywords[jobs[b].current_keyword_index + 1].keyword
       ELSE "none"

\* C38: in every reachable state the stored cursor of a batch is at least
\* 0 and at most total_keywords, so the current keyword of the snapshot is
\* the keyword of a task of the batch, or absent.
C38_CursorInRange ==
    \A b \in JobIds :
        jobs[b].exists =>
            /\ 0 <= jobs[b].current_keyword_index
            /\ jobs[b].current_keyword_index <= jobs[b].total_keywords
            /\ current_keyword(b) \in
                  {"none"} \cup {tasks[b][i].keyword : i \in {j \in DOMAIN tasks[b] : tasks[b][j].exists}}

\* The cursor of a batch of several keywords has reached total_keywords
\* and the snapshot names no current keyword.
C38_Witness ==
    \E b \in JobIds :
        /\ jobs[b].exists
        /\ jobs[b].total_keywords >= 2
        /\ jobs[b].current_keyword_index = jobs[b].total_keywords
        /\ current_keyword(b) = "none"


\* The statuses of a task that has been dealt with.
Settled == {"completed", "failed", "skipped"}

\* Every task stored for batch b is completed, failed or skipped.
AllSettled(b) ==
    \A i \in DOMAIN tasks[b] : tasks[b][i].exists => tasks[b][i].status \in Settled

\* C39: whenever the run loop stores completed for a batch, every task of
\* that batch is stored completed, failed or skipped.
C39_CompletedAllSettled ==
    [][\A p \in Procs :
          (run[p].pc = "complete" /\ run'[p].pc # "complete") =>
              /\ jobs'[run[p].batch_id].status = "completed"
              /\ AllSettled(run[p].batch_id)'
      ]_vars

\* The loop has stored completed for a batch of several tasks, one of
\* them skipped and one failed.
C39_Witness ==
    \E p \in Procs :
        /\ run[p].pc = "finally"
        /\ run[p].outcome = "returned"
        /\ jobs[run[p].batch_id].exists
        /\ jobs[run[p].batch_id].status = "completed"
        /\ \E i, j \in DOMAIN tasks[run[p].batch_id] :
              /\ tasks[run[p].batch_id][i].exists
              /\ tasks[run[p].batch_id][j].exists
              /\ tasks[run[p].batch_id][i].status = "skipped"
              /\ tasks[run[p].batch_id][j].status = "failed"


=============================================================================
